---- MODULE Spec2Model ----
(***************************************************************************)
(* A model of adauth (src/unnamed/part_005: class ADAuth and class Cache,  *)
(* src/unnamed/part_003: ad-utils).                                        *)
(*                                                                         *)
(* Text that the code takes apart character by character (user names,      *)
(* SIDs, primaryGroupID) is a sequence of one-character strings; the       *)
(* JavaScript value undefined of such a text is the empty sequence.        *)
(* Distinguished names and passwords are never taken apart and are plain   *)
(* strings ("" is the empty / absent one).                                 *)
(***************************************************************************)
EXTENDS Integers, Sequences, FiniteSets, TLC

\* ------------------------------------------------------------------ bounds

\* Groups in the directories that InitGroups draws.
NumGroups == 2
\* Concurrent authenticate calls on the one ADAuth instance.
NumCalls == 2
\* Clock ticks the model lets pass.
MaxTicks == 2

\* ------------------------------------------------------- program constants

\* new Cache(100, 300, ...): at most 100 entries ...
CacheSize == 100
\* ... each served for 300 seconds
CacheExpirySeconds == 300
\* this.expiry = expiry * 1000
MsPerSecond == 1000

\* One tick of the model's clock, in milliseconds (new Date().getTime()).
TickMs == 200000

\* ------------------------------------------------------------------- text

Digits == <<"0", "1", "2", "3", "4", "5", "6", "7", "8", "9">>
HexDigits == <<"0", "1", "2", "3", "4", "5", "6", "7", "8", "9",
               "a", "b", "c", "d", "e", "f">>

RECURSIVE ToDecimal(_)
\* Number.prototype.toString() of a non-negative integer.
ToDecimal(n) ==
    IF n < 10 THEN <<Digits[n + 1]>>
    ELSE ToDecimal(n \div 10) \o <<Digits[(n % 10) + 1]>>

RECURSIVE ToHexNat(_)
ToHexNat(n) ==
    IF n < 16 THEN <<HexDigits[n + 1]>>
    ELSE ToHexNat(n \div 16) \o <<HexDigits[(n % 16) + 1]>>

RECURSIVE ToHexNeg(_)
\* The hex digits of the magnitude of a negative integer, taken from the
\* integer itself (the magnitude of -2^31 is no 32-bit integer).
ToHexNeg(n) ==
    LET digit == (16 - (n % 16)) % 16
    IN  IF n > 0 - 16 THEN <<HexDigits[digit + 1]>>
        ELSE ToHexNeg((n + digit) \div 16) \o <<HexDigits[digit + 1]>>

\* Number.prototype.toString(16): a sign, then the hex digits of the magnitude.
ToHex(n) == IF n < 0 THEN <<"-">> \o ToHexNeg(n) ELSE ToHexNat(n)

\* A non-negative integer of any size as its 16-bit limbs, most significant
\* first: quotient and remainder of its division by ten, and its decimal
\* digits.
LimbBase == 65536
RECURSIVE Div10(_, _)
Div10(limbs, carry) ==
    IF limbs = <<>> THEN <<>>
    ELSE LET t == carry * LimbBase + Head(limbs)
         IN  <<t \div 10>> \o Div10(Tail(limbs), t % 10)
RECURSIVE Rem10(_, _)
Rem10(limbs, carry) ==
    IF limbs = <<>> THEN carry
    ELSE Rem10(Tail(limbs), (carry * LimbBase + Head(limbs)) % 10)
RECURSIVE LimbsToDecimal(_)
LimbsToDecimal(limbs) ==
    IF \A i \in 1..Len(limbs) : Div10(limbs, 0)[i] = 0
    THEN <<Digits[Rem10(limbs, 0) + 1]>>
    ELSE LimbsToDecimal(Div10(limbs, 0)) \o <<Digits[Rem10(limbs, 0) + 1]>>

\* String.prototype.lastIndexOf(ch), 0-based, -1 when ch does not occur.
LastIndexOf(s, ch) ==
    LET hits == {i \in 1..Len(s) : s[i] = ch}
    IN  IF hits = {} THEN 0 - 1
        ELSE (CHOOSE i \in hits : \A j \in hits : j <= i) - 1

\* String.prototype.substring(from, to), 0-based, to exclusive.
Substring(s, from, to) == SubSeq(s, from + 1, to)

\* String.prototype.includes(ch)
Includes(s, ch) == \E i \in 1..Len(s) : s[i] = ch

\* --------------------------------------------------------------- ad-utils

\* The characters the model's texts are made of, with their char codes
\* (String.prototype.charCodeAt).
Chars == <<" ", "a", "b", "c", "d", "D", "X", "\\", "@", ",", "*", "-", "S",
           "0", "1", "2", "3", "4", "5", "6", "7", "8", "9",
           "#", "+", "<", ">", ";", "\"", "=", "(", ")", "$", "\t">>
CharCodes == <<32, 97, 98, 99, 100, 68, 88, 92, 64, 44, 42, 45, 83,
               48, 49, 50, 51, 52, 53, 54, 55, 56, 57,
               35, 43, 60, 62, 59, 34, 61, 40, 41, 36, 9>>
CharCode(ch) == CharCodes[CHOOSE i \in 1..Len(Chars) : Chars[i] = ch]
\* String.fromCharCode for the codes of Chars; "?" for any other code.
CharOfCode(n) ==
    IF \E i \in 1..Len(Chars) : CharCodes[i] = n
    THEN Chars[CHOOSE i \in 1..Len(Chars) : CharCodes[i] = n]
    ELSE "?"

RECURSIVE BitOr(_, _)
\* x | y of two non-negative integers.
BitOr(x, y) ==
    IF x = 0 THEN y
    ELSE IF y = 0 THEN x
    ELSE 2 * BitOr(x \div 2, y \div 2)
         + (IF (x % 2) = 1 \/ (y % 2) = 1 THEN 1 ELSE 0)

\* Byte k (0-based) of a buffer.
Byte(buf, k) == buf[k + 1]

\* The shift count of `binarySID[i] << (8 * (5 - (i - 2)))`: JavaScript takes
\* the count of << modulo 32, so the counts 40 and 32 of bytes 2 and 3 act as
\* 8 and 0.
AuthorityShift(i) == (8 * (5 - (i - 2))) % 32

\* The value `authority` holds after the loop over bytes 2..7: the bitwise OR
\* of the six shifted bytes as a signed 32-bit integer. Byte 4 is the only
\* one shifted by 24; it lands in the top byte and carries the sign.
SIDAuthority(b) ==
    LET term(i) == Byte(b, i) * (2 ^ AuthorityShift(i))
        low == BitOr(term(2), BitOr(term(3),
               BitOr(term(5), BitOr(term(6), term(7)))))
        top == IF Byte(b, 4) >= 128 THEN Byte(b, 4) - 256 ELSE Byte(b, 4)
    IN  top * (2 ^ AuthorityShift(4)) + low

\* A Long whose upper 32 bits are zero, kept as the two 16-bit halves of its
\* lower 32 bits: Long.fromNumber of a byte, shiftLeft by 0, 8, 16 or 24 bits
\* of such a Long, or, and toString().
LongFromNumber(n) == [hi |-> 0, lo |-> n]
LongShiftLeft(v, bits) ==
    IF bits < 16
    THEN [hi |-> (v.lo * (2 ^ bits)) \div LimbBase,
          lo |-> (v.lo * (2 ^ bits)) % LimbBase]
    ELSE [hi |-> (v.lo * (2 ^ (bits - 16))) % LimbBase, lo |-> 0]
LongOr(v, w) == [hi |-> BitOr(v.hi, w.hi), lo |-> BitOr(v.lo, w.lo)]
\* A toString() that prints the lower 16 bits only.
LongToStringLow(v) == ToDecimal(v.lo)
LongToString(v) == LimbsToDecimal(<<v.hi, v.lo>>)

RECURSIVE SubAuthority(_, _, _)
\* The inner loop over j: the OR of Long(byte & 0xff) << (8 * j) for
\* j = 0..3, done on 64-bit Longs.
SubAuthority(b, offset, j) ==
    IF j >= 4 THEN LongFromNumber(0)
    ELSE LongOr(LongShiftLeft(LongFromNumber(Byte(b, offset + j) % 256),
                              8 * j),
                SubAuthority(b, offset, j + 1))

RECURSIVE SubAuthorities(_, _, _)
\* The outer loop over i: "-" and the sub-authority in decimal, subAuthCount
\* times, from offset 8 in steps of 4.
SubAuthorities(b, i, subAuthCount) ==
    IF i >= subAuthCount THEN <<>>
    ELSE <<"-">> \o LongToString(SubAuthority(b, 8 + 4 * i, 0))
         \o SubAuthorities(b, i + 1, subAuthCount)

binarySIDToString(binarySID) ==
    <<"S", "-">> \o ToDecimal(Byte(binarySID, 0))
    \o <<"-">> \o ToHex(SIDAuthority(binarySID))
    \o SubAuthorities(binarySID, 0, Byte(binarySID, 1) % 256)

\* An index that leaves every byte in its place.
GUIDIndexInOrder(i) == i

\* idx of binaryGUIDToString: bytes 0-3 reversed, 4-5 and 6-7 swapped, the
\* rest in place.
GUIDIndex(i) ==
    IF i < 4 THEN 3 - i
    ELSE IF i = 4 \/ i = 6 THEN i + 1
    ELSE IF i = 5 \/ i = 7 THEN i - 1
    ELSE i

RECURSIVE GUIDFrom(_, _)
\* The loop of binaryGUIDToString from index i on: a "0" in front of a byte
\* below 0x10, the byte in hex, and a hyphen after the indexes 3, 5, 7, 9.
GUIDFrom(binaryGUID, i) ==
    IF i >= Len(binaryGUID) THEN <<>>
    ELSE (IF Byte(binaryGUID, GUIDIndex(i)) < 16 THEN <<"0">> ELSE <<>>)
         \o ToHex(Byte(binaryGUID, GUIDIndex(i)))
         \o (IF i \in {3, 5, 7, 9} THEN <<"-">> ELSE <<>>)
         \o GUIDFrom(binaryGUID, i + 1)

binaryGUIDToString(binaryGUID) ==
    <<"{">> \o GUIDFrom(binaryGUID, 0) \o <<"}">>

\* The backtick character (written by its code point: a string of the
\* module cannot hold it).
Backtick == "U+0060"

\* adUnsafeChars, a negated character class: the characters it leaves alone
\* are the space, a-z, A-Z, 0-9 and . & - _ [ ] backtick ~ | @ $ % ^ ? : { }
\* ! and the apostrophe.
SafeChars ==
    {" ", ".", "&", "-", "_", "[", "]", Backtick, "~", "|", "@", "$", "%", "^",
     "?", ":", "{", "}", "!", "'"}
    \cup {"a", "b", "c", "d", "e", "f", "g", "h", "i", "j", "k", "l", "m",
          "n", "o", "p", "q", "r", "s", "t", "u", "v", "w", "x", "y", "z"}
    \cup {"A", "B", "C", "D", "E", "F", "G", "H", "I", "J", "K", "L", "M",
          "N", "O", "P", "Q", "R", "S", "T", "U", "V", "W", "X", "Y", "Z"}
    \cup {Digits[i] : i \in 1..10}

\* adSpecialChars is a Set and the callback reads adSpecialChars[match], a
\* property lookup on the Set object: undefined for every character.
adSpecialCharsLookup(ch) == FALSE

\* The replace callback of escapeADString, for one unsafe character.
EscapeChar(ch) ==
    IF adSpecialCharsLookup(ch) THEN <<"\\", ch>>
    ELSE LET hex == ToHexNat(CharCode(ch))
         IN  <<"\\">> \o (IF Len(hex) % 2 # 0 THEN <<"0">> \o hex ELSE hex)

RECURSIVE EscapeChars(_)
EscapeChars(str) ==
    IF str = <<>> THEN <<>>
    ELSE (IF Head(str) \in SafeChars THEN <<Head(str)>>
          ELSE EscapeChar(Head(str)))
         \o EscapeChars(Tail(str))

\* An escape without the two boundary steps.
escapeADStringBoundaryKept(str) == EscapeChars(str)

escapeADString(str) ==
    LET es0 == EscapeChars(str)
        es1 == IF Len(es0) > 0 /\ es0[1] = " "
               THEN <<"\\", "2", "0">>
                    \o (IF Len(es0) > 1 THEN Substring(es0, 1, Len(es0))
                        ELSE <<>>)
               ELSE es0
    IN  IF Len(es1) > 0 /\ es1[Len(es1)] = " "
        THEN (IF Len(es1) > 1 THEN Substring(es1, 0, Len(es1) - 1) ELSE <<>>)
             \o <<"\\", "2", "0">>
        ELSE es1

\* String.prototype.toUpperCase, character by character.
LowerLetters == <<"a", "b", "c", "d", "e", "f", "g", "h", "i", "j", "k", "l",
                  "m", "n", "o", "p", "q", "r", "s", "t", "u", "v", "w", "x",
                  "y", "z">>
UpperLetters == <<"A", "B", "C", "D", "E", "F", "G", "H", "I", "J", "K", "L",
                  "M", "N", "O", "P", "Q", "R", "S", "T", "U", "V", "W", "X",
                  "Y", "Z">>
UpperChar(ch) ==
    IF \E i \in 1..26 : LowerLetters[i] = ch
    THEN UpperLetters[CHOOSE i \in 1..26 : LowerLetters[i] = ch]
    ELSE ch
ToUpperCase(s) == [i \in 1..Len(s) |-> UpperChar(s[i])]

RECURSIVE Split(_, _)
\* String.prototype.split(ch): the pieces between the occurrences of ch.
Split(s, ch) ==
    IF ~Includes(s, ch) THEN <<s>>
    ELSE LET i == CHOOSE k \in 1..Len(s) :
                      s[k] = ch /\ \A j \in 1..(k - 1) : s[j] # ch
         IN  <<SubSeq(s, 1, i - 1)>> \o Split(SubSeq(s, i + 1, Len(s)), ch)

\* ---------------------------------------------------- the directory server
\* The LDAP server behind #userClient (ldapjs; in the tests MockLdapClient
\* over a dump). A server object carries the attributes the code reads.

NoText == <<>>

ServerObject(kind, dn, sam, upn, rawSid, pgid, member, principal) ==
    [kind |-> kind, dn |-> dn, sAMAccountName |-> sam,
     userPrincipalName |-> upn, rawSid |-> rawSid, primaryGroupID |-> pgid,
     member |-> member, principalName |-> principal, rawGuid |-> <<>>]

\* The object with a binary objectGUID.
WithGuid(o, rawGuid) == [o EXCEPT !.rawGuid = rawGuid]

\* A binary objectSid S-1-5-<rid>: revision 1, one sub-authority, authority
\* 5 (big-endian in bytes 2..7), the sub-authority little-endian.
RawSid(rid) == <<1, 1, 0, 0, 0, 0, 0, 5, rid % 256, rid \div 256, 0, 0>>

DomainDN == "dc=d"
UserDN == "cn=a"
GroupDN(i) == <<"cn=g1", "cn=g2", "cn=g3", "cn=g4">>[i]
UserRid == 7
GroupRid(i) == 10 + i

\* The memberOf attribute the server reports for dn: the groups that list
\* it as a member, in server order; ldapjs hands a single value over as a
\* bare string and several as an array.
GroupsListing(objects, dn) ==
    LET listing == SelectSeq(objects,
                       LAMBDA o : o.kind = "group" /\ dn \in o.member)
    IN  [i \in 1..Len(listing) |-> listing[i].dn]

MemberOfAttr(objects, dn) ==
    LET v == GroupsListing(objects, dn)
    IN  [kind |-> IF Len(v) = 0 THEN "absent"
                  ELSE IF Len(v) = 1 THEN "string" ELSE "array",
         v |-> v]

\* The undefined entry.
NoEntry ==
    [dn |-> "", objectSid |-> NoText, primaryGroupID |-> NoText,
     memberOf |-> [kind |-> "absent", v |-> <<>>], principalName |-> NoText,
     objectGUID |-> NoText]

\* The 'searchEntry' handler of #search: entry.object with objectSid and
\* objectGUID decoded from entry.raw, or undefined when the raw attribute is
\* absent.
SearchEntry(objects, o) ==
    [dn |-> o.dn,
     objectSid |-> IF o.rawSid # <<>> THEN binarySIDToString(o.rawSid)
                   ELSE NoText,
     primaryGroupID |-> o.primaryGroupID,
     memberOf |-> MemberOfAttr(objects, o.dn),
     principalName |-> o.principalName,
     objectGUID |-> IF o.rawGuid # <<>> THEN binaryGUIDToString(o.rawGuid)
                    ELSE NoText]

IsHexDigit(ch) == \E i \in 1..16 : HexDigits[i] = ch
HexValue(ch) == (CHOOSE i \in 1..16 : HexDigits[i] = ch) - 1

RECURSIVE UnescapeFilter(_)
\* The server's reading of a filter value: a backslash and two hex digits
\* stand for the character with that code.
UnescapeFilter(v) ==
    IF v = <<>> THEN <<>>
    ELSE IF Head(v) = "\\" /\ Len(v) >= 3
              /\ IsHexDigit(v[2]) /\ IsHexDigit(v[3])
         THEN <<CharOfCode(16 * HexValue(v[2]) + HexValue(v[3]))>>
              \o UnescapeFilter(SubSeq(v, 4, Len(v)))
         ELSE <<Head(v)>> \o UnescapeFilter(Tail(v))

\* Whether server object o matches a filter. A filter is the attribute its
\* template tests and the value substituted into it.
Matches(o, filter) ==
    CASE filter.attr = "distinguishedName" -> o.dn = filter.dn
      [] filter.attr = "samAccountName" ->
            o.kind = "user" /\ o.sAMAccountName # NoText
            /\ o.sAMAccountName = UnescapeFilter(filter.text)
      [] filter.attr = "userPrincipalName" ->
            o.kind = "user" /\ o.userPrincipalName # NoText
            /\ o.userPrincipalName = UnescapeFilter(filter.text)
      [] filter.attr = "member" -> o.kind = "group" /\ filter.dn \in o.member
      [] filter.attr = "objectSid" ->
            o.rawSid # <<>> /\ binarySIDToString(o.rawSid) = filter.text
      [] OTHER -> FALSE

Filter(attr, dn, text) == [attr |-> attr, dn |-> dn, text |-> text]

\* The entries a search with this filter streams, in server order.
SearchResults(objects, filter) ==
    LET matching == SelectSeq(objects, LAMBDA o : Matches(o, filter))
    IN  [i \in 1..Len(matching) |-> SearchEntry(objects, matching[i])]

\* ------------------------------------------------------------------ state

VARIABLES
    dir,          \* the directory: [objects, logins]; fixed once drawn
    options,      \* this.options: cache, group search, bases and scopes
    initialised,  \* #initialised
    boundAs,      \* the identity of #userClient's latest successful bind
    cache,        \* #userCache.items, most recently used first
    now,          \* the clock, in ticks
    disposePc,    \* where dispose() is: "idle" or "closing" (awaiting unbind)
    call          \* call[c]: one authenticate call, its locals and its history

vars == <<dir, options, initialised, boundAs, cache, now, disposePc, call>>

Calls == 1..NumCalls

\* ------------------------------------------------------------------ Cache

\* this.expiry = expiry * 1000
CacheExpiryMs == CacheExpirySeconds * MsPerSecond

\* new Date().getTime()
NowMs == now * TickMs

CacheHas(items, key) == \E i \in 1..Len(items) : items[i].key = key
CacheItem(items, key) ==
    items[CHOOSE i \in 1..Len(items) : items[i].key = key]

Without(items, key) == SelectSeq(items, LAMBDA e : e.key # key)

\* LRU.get(key) makes the entry the most recently used one.
LRUTouch(items, key) ==
    IF CacheHas(items, key)
    THEN <<CacheItem(items, key)>> \o Without(items, key)
    ELSE items

\* An LRU.set that drops nothing.
LRUSetUnbounded(items, item) == <<item>> \o Without(items, item.key)

\* LRU.set(key, item) with max = size: the entry becomes the most recently
\* used one and the least recently used ones beyond max are dropped.
LRUSet(items, item) ==
    LET added == <<item>> \o Without(items, item.key)
    IN  IF Len(added) > CacheSize THEN SubSeq(added, 1, CacheSize) ELSE added

\* Cache.get without the test of the age.
CacheNeverExpires(items, key, nowMs) == CacheHas(items, key)

\* Cache.get with the comparison turned round.
CacheStale(items, key, nowMs) ==
    CacheHas(items, key) /\ nowMs - CacheItem(items, key).ctime > CacheExpiryMs

\* Cache.get: the value, if held and stored at most expiry ms ago.
CacheFresh(items, key, nowMs) ==
    CacheHas(items, key) /\ nowMs - CacheItem(items, key).ctime <= CacheExpiryMs

\* A Cache.set that leaves an entry already held for the key as it is.
CacheSetKeepsOld(items, key, value, nowMs) ==
    IF CacheHas(items, key) THEN items
    ELSE LRUSet(items, [key |-> key, value |-> value, ctime |-> nowMs])

\* Cache.set: { value, ctime: new Date().getTime() }
CacheSet(items, key, value, nowMs) ==
    LRUSet(items, [key |-> key, value |-> value, ctime |-> nowMs])

\* bcrypt.hash(password, salt)
Hash(password) == [plain |-> password]

\* A compare that accepts every password.
CompareAny(password, hash) == TRUE

\* bcrypt.compare(password, hash)
Compare(password, hash) == hash = Hash(password)

\* ------------------------------------------------------------- call state

\* userWithGroups: the user and what `groups` holds: the list of groups, or
\* (group search not configured) the user object itself.
NoValue == [user |-> NoEntry, groups |-> <<>>, groupsAre |-> "none"]
NoCached ==
    [key |-> NoText, value |-> [password |-> Hash(""), user |-> NoValue],
     ctime |-> 0]

IdleCall ==
    [pc |-> "idle", username |-> NoText, password |-> "",
     cached |-> NoCached, filter |-> Filter("", "", NoText),
     user |-> NoEntry, tasks |-> <<>>, objGroups |-> <<>>, resolved |-> {},
     result |-> NoValue, error |-> "", detail |-> <<>>,
     \* history of the call
     ready |-> FALSE, bound |-> FALSE, binds |-> 0, unbinds |-> 0,
     searches |-> 0, lookups |-> 0, hit |-> FALSE, stored |-> FALSE,
     storedMs |-> 0, lookupMs |-> 0, later |-> FALSE, held |-> FALSE,
     sids |-> <<>>, primary |-> NoEntry, lost |-> FALSE,
     issued |-> <<>>, found |-> "", matches |-> 0,
     \* the search in progress, event by event: the items array of #search,
     \* the number of entries the server has sent, the status of the 'end'
     \* event (none yet: <<>>) and the array the promise resolved with
     items |-> <<>>, sent |-> 0, endStatus |-> <<>>,
     handed |-> [given |-> FALSE, items |-> <<>>]]

\* One invocation of resolveGroups(obj).
Task(obj) == [obj |-> obj, stage |-> "search", groups |-> <<>>]

Fail(rec, error) == [rec EXCEPT !.pc = "failed", !.error = error]

\* throw new Error(...) with values put into the message.
FailNaming(rec, error, detail) ==
    [rec EXCEPT !.pc = "failed", !.error = error, !.detail = detail]

\* One call of #search(base, { filter, scope }).
Search(base, scope, filter) == [base |-> base, scope |-> scope, filter |-> filter]

\* History: the call issues a search.
Issue(rec, search) ==
    [rec EXCEPT !.searches = @ + 1, !.issued = Append(@, search)]

\* The call awaits a promise that never settles.
Hang(rec) == [rec EXCEPT !.pc = "hung"]

\* How a search ends: the callback or the 'error' event carries an error,
\* the 'end' event carries a non-zero status, or it carries status 0.
SearchOutcomes == {"ok", "error", "status"}

\* #search with the non-zero status branch returning without reject: the
\* promise of such a search never settles.
SearchPromiseStatusDropped(outcome, items) ==
    CASE outcome = "error" ->
            [state |-> "rejected", error |-> "SearchError", items |-> <<>>]
      [] outcome = "status" ->
            [state |-> "pending", error |-> "", items |-> <<>>]
      [] OTHER -> [state |-> "resolved", error |-> "", items |-> items]

\* A promise that resolves with the items whatever the status is.
SearchPromiseStatusIgnored(outcome, items) ==
    CASE outcome = "error" ->
            [state |-> "rejected", error |-> "SearchError", items |-> <<>>]
      [] OTHER -> [state |-> "resolved", error |-> "", items |-> items]

\* What the promise of #search settles to.
SearchPromise(outcome, items) ==
    CASE outcome = "error" ->
            [state |-> "rejected", error |-> "SearchError", items |-> <<>>]
      [] outcome = "status" ->
            [state |-> "rejected", error |-> "NonZeroStatus", items |-> <<>>]
      [] OTHER -> [state |-> "resolved", error |-> "", items |-> items]

\* An items array that takes each new entry at its front.
PushFront(items, entry) == <<entry>> \o items

\* items.push(entry)
Push(items, entry) == Append(items, entry)

\* ------------------------------------------------------- group resolution

\* primaryGroupSID cut at lastIndexOf('-') without the + 1.
PrimaryGroupSIDNoDash(obj) ==
    Substring(obj.objectSid, 0, LastIndexOf(obj.objectSid, "-"))
    \o obj.primaryGroupID

\* primaryGroupSID: obj.objectSid up to and including its last '-', then
\* obj.primaryGroupID.
PrimaryGroupSID(obj) ==
    Substring(obj.objectSid, 0, LastIndexOf(obj.objectSid, "-") + 1)
    \o obj.primaryGroupID

\* What #findObjectBySID returns: result && result[0]; a failed search is
\* caught and logged there, and the function returns undefined.
FindObjectBySID(promise) ==
    IF promise.state = "rejected" THEN NoEntry
    ELSE IF promise.items = <<>> THEN NoEntry
    ELSE promise.items[1]

\* groups.push(primaryGroup) in place of unshift.
WithPrimaryGroupLast(primaryGroup, groups) == Append(groups, primaryGroup)

\* groups.unshift(primaryGroup)
WithPrimaryGroup(primaryGroup, groups) == <<primaryGroup>> \o groups

\* obj.memberOf after the primary group's dn is put in front of it.
PrependMemberOf(memberOf, dn) ==
    IF memberOf.kind = "array"
    THEN [kind |-> "array", v |-> <<dn>> \o memberOf.v]
    ELSE IF memberOf.kind = "string"
    THEN [kind |-> "array", v |-> <<dn, memberOf.v[1]>>]
    ELSE memberOf

\* resolved.has(group.objectSid)
ResolvedHas(resolved, group) == group.objectSid \in resolved

RECURSIVE DedupLoop(_, _, _, _)
\* for (const group of groups): a group whose objectSid is not yet in
\* resolved is marked, and pushed to needResolution and to objGroups.
DedupLoop(groups, resolved, needResolution, objGroups) ==
    IF groups = <<>>
    THEN [resolved |-> resolved, needResolution |-> needResolution,
          objGroups |-> objGroups]
    ELSE IF ~ResolvedHas(resolved, Head(groups))
    THEN DedupLoop(Tail(groups), resolved \cup {Head(groups).objectSid},
                   Append(needResolution, Head(groups)),
                   Append(objGroups, Head(groups)))
    ELSE DedupLoop(Tail(groups), resolved, needResolution, objGroups)

\* The objects resolveGroups is invoked on by
\*   await Promise.all(needResolution.map(group => async () => {...}))
\* The map builds one async closure per group and none of them is called:
\* Promise.all resolves at once with the closures themselves.
Started(needResolution) == <<>>

\* authenticate after #getGroups: with a cache the password is hashed
\* first (an await), without one userWithGroups is returned.
AfterGroups(rec, value) ==
    IF options.cache THEN [rec EXCEPT !.pc = "hash", !.result = value]
    ELSE [rec EXCEPT !.pc = "done", !.result = value]

\* The rest of resolveGroups(obj) once groups is complete: the dedup loop
\* and the fan-out; when every started invocation has finished, #findGroups
\* returns objGroups to authenticate.
IterateGroups(rec, t, groups, obj) ==
    LET d == DedupLoop(groups, rec.resolved, <<>>, rec.objGroups)
        started == Started(d.needResolution)
        tasks2 == [rec.tasks EXCEPT ![t] =
                       [obj |-> obj, stage |-> "done", groups |-> groups]]
                  \o [i \in 1..Len(started) |-> Task(started[i])]
        rec2 == [rec EXCEPT !.tasks = tasks2,
                            !.resolved = d.resolved,
                            !.objGroups = d.objGroups,
                            !.searches = @ + Len(started),
                            !.issued = @ \o [i \in 1..Len(started) |->
                                Search(options.groupSearchBase,
                                       options.groupSearchScope,
                                       Filter("member", started[i].dn,
                                              NoText))],
                            !.user = IF t = 1 THEN obj ELSE @]
    IN  IF \A i \in 1..Len(tasks2) : tasks2[i].stage = "done"
        THEN AfterGroups(rec2, [user |-> rec2.user, groups |-> rec2.objGroups,
                                groupsAre |-> "list"])
        ELSE rec2

\* A #getGroups that searches for groups whatever the options say.
StartGroupsAlways(rec, user) ==
    IF ~initialised THEN Fail(rec, "NotInitialised")
    ELSE Issue([rec EXCEPT !.pc = "groups", !.user = user,
                                 !.tasks = <<Task(user)>>],
               Search(options.groupSearchBase, options.groupSearchScope,
                      Filter("member", user.dn, NoText)))

\* this.#getGroups(user): #findGroups up to the first search of
\* resolveGroups(user), or `async user => user` when group search is not
\* configured.
StartGroups(rec, user) ==
    IF ~options.groupSearch
    THEN AfterGroups([rec EXCEPT !.user = user],
                     [user |-> user, groups |-> <<>>, groupsAre |-> "user"])
    ELSE IF ~initialised THEN Fail(rec, "NotInitialised")
    ELSE Issue([rec EXCEPT !.pc = "groups", !.user = user,
                                 !.tasks = <<Task(user)>>],
               Search(options.groupSearchBase, options.groupSearchScope,
                      Filter("member", user.dn, NoText)))

\* The membership search of resolveGroups(tasks[t].obj) ends.
GroupSearchComplete(c, t) ==
    /\ call[c].pc = "groups"
    /\ t \in 1..Len(call[c].tasks)
    /\ call[c].tasks[t].stage = "search"
    /\ \E outcome \in SearchOutcomes :
         LET rec == call[c]
             obj == rec.tasks[t].obj
             promise == SearchPromise(outcome,
                            SearchResults(dir.objects,
                                          Filter("member", obj.dn, NoText)))
             groups == promise.items
         IN  call' = [call EXCEPT ![c] =
               IF promise.state = "pending" THEN Hang(rec)
               ELSE IF promise.state = "rejected"
               THEN [Fail(rec, promise.error) EXCEPT !.lost = TRUE]
               ELSE IF obj.primaryGroupID # NoText
               THEN IF obj.objectSid = NoText THEN Fail(rec, "TypeError")
                    ELSE IF ~initialised THEN Fail(rec, "NotInitialised")
                    ELSE Issue([rec EXCEPT
                                    !.tasks[t].stage = "sid",
                                    !.tasks[t].groups = groups,
                                    !.sids = Append(@, PrimaryGroupSID(obj))],
                               Search(options.domainDN,
                                      options.groupSearchScope,
                                      Filter("objectSid", "",
                                             PrimaryGroupSID(obj))))
               ELSE IterateGroups(rec, t, groups, obj)]
    /\ UNCHANGED <<dir, options, initialised, boundAs, cache, now, disposePc>>

\* The objectSid search of #findObjectBySID ends.
SIDSearchComplete(c, t) ==
    /\ call[c].pc = "groups"
    /\ t \in 1..Len(call[c].tasks)
    /\ call[c].tasks[t].stage = "sid"
    /\ \E outcome \in SearchOutcomes :
         LET rec == call[c]
             obj == rec.tasks[t].obj
             promise == SearchPromise(outcome,
                            SearchResults(dir.objects,
                                Filter("objectSid", "", PrimaryGroupSID(obj))))
             primaryGroup == FindObjectBySID(promise)
             found == primaryGroup # NoEntry
             groups == IF found
                       THEN WithPrimaryGroup(primaryGroup, rec.tasks[t].groups)
                       ELSE rec.tasks[t].groups
             obj2 == IF found
                     THEN [obj EXCEPT !.memberOf =
                               PrependMemberOf(@, primaryGroup.dn)]
                     ELSE obj
             rec1 == [rec EXCEPT !.lost = @ \/ promise.state = "rejected",
                                 !.primary = IF t = 1 THEN primaryGroup ELSE @]
         IN  call' = [call EXCEPT ![c] =
               IF promise.state = "pending" THEN Hang(rec)
               ELSE IterateGroups(rec1, t, groups, obj2)]
    /\ UNCHANGED <<dir, options, initialised, boundAs, cache, now, disposePc>>

\* --------------------------------------------------------------- findUser

\* #search from #findUser with the resolved filter. #search asserts that
\* the instance is initialised before it touches the client.
IssueUserSearch(rec, filter) ==
    IF ~initialised THEN Fail(rec, "NotInitialised")
    ELSE Issue([rec EXCEPT !.pc = "userSearch", !.filter = filter],
               Search(options.searchBase, options.searchScope, filter))

\* The placeholders of the user filter templates.
PlaceholderUsername == "{{username}}"
PlaceholderUPN == "{{upn}}"
\* The default filter templates, cut into the pieces that replace and the
\* server tell apart: the conjuncts on the object class, the attribute, the
\* equals sign, the placeholder and the closing parentheses.
UserClassPrefix == "(&(objectCategory=user)(objectClass=user)("
UserClassSuffix == "))"
searchFilterBySAN ==
    <<UserClassPrefix, "samAccountName", "=", PlaceholderUsername,
      UserClassSuffix>>
searchFilterByUPN ==
    <<UserClassPrefix, "userPrincipalName", "=", PlaceholderUPN,
      UserClassSuffix>>

RECURSIVE ExpandReplacement(_, _, _, _)
\* What String.prototype.replace inserts for a replacement string: a dollar
\* sign followed by a dollar sign is one dollar sign, followed by an
\* ampersand the matched text, followed by a backtick the text before the
\* match, followed by an apostrophe the text after it; everything else is
\* copied.
ExpandReplacement(repl, matched, before, after) ==
    IF repl = <<>> THEN <<>>
    ELSE IF Head(repl) = "$" /\ Len(repl) >= 2
              /\ repl[2] \in {"$", "&", Backtick, "'"}
    THEN (CASE repl[2] = "$" -> <<"$">>
            [] repl[2] = "&" -> matched
            [] repl[2] = Backtick -> before
            [] OTHER -> after)
         \o ExpandReplacement(SubSeq(repl, 3, Len(repl)), matched, before,
                              after)
    ELSE <<Head(repl)>>
         \o ExpandReplacement(Tail(repl), matched, before, after)

RECURSIVE ReplaceFrom(_, _, _, _)
ReplaceFrom(template, k, placeholder, repl) ==
    IF k > Len(template) THEN <<>>
    ELSE (IF template[k] = placeholder
          THEN ExpandReplacement(repl, <<placeholder>>,
                                 SubSeq(template, 1, k - 1),
                                 SubSeq(template, k + 1, Len(template)))
          ELSE <<template[k]>>)
         \o ReplaceFrom(template, k + 1, placeholder, repl)

\* template.replace(/{{...}}/g, repl): every occurrence of the placeholder.
ReplaceAll(template, placeholder, repl) ==
    ReplaceFrom(template, 1, placeholder, repl)

\* The server's reading of a filter string
\* "(&(objectCategory=user)(objectClass=user)(attribute=value))".
ParseFilter(text) ==
    IF Len(text) >= 4 /\ text[1] = UserClassPrefix /\ text[3] = "="
       /\ text[Len(text)] = UserClassSuffix
    THEN Filter(text[2], "", SubSeq(text, 4, Len(text) - 1))
    ELSE Filter("malformed", "", text)

\* searchFilterBySAN / searchFilterByUPN with the escaped value put in.
FilterBySAN(value) ==
    ParseFilter(ReplaceAll(searchFilterBySAN, PlaceholderUsername,
                           escapeADString(value)))
FilterByUPN(value) ==
    ParseFilter(ReplaceAll(searchFilterByUPN, PlaceholderUPN,
                           escapeADString(value)))

\* A comparison of names under which every two names are equal.
DomainNameIgnored(name) == <<>>

\* A comparison that keeps the case of the names.
DomainNameCaseKept(name) ==
    IF Len(name) > 0 /\ name[Len(name)] = "\\"
    THEN SubSeq(name, 1, Len(name) - 1)
    ELSE name

\* inName / fdName: upper-cased, one trailing backslash removed.
DomainName(name) ==
    LET up == ToUpperCase(name)
    IN  IF Len(up) > 0 /\ up[Len(up)] = "\\" THEN SubSeq(up, 1, Len(up) - 1)
        ELSE up

\* #findUser(username) up to its first search.
FindUser(rec) ==
    IF ~initialised THEN Fail(rec, "NotInitialised")
    ELSE IF rec.username = NoText THEN Fail(rec, "EmptyUsername")
    ELSE IF Includes(rec.username, "\\")
    THEN Issue([rec EXCEPT !.pc = "domainSearch"],
               Search(options.domainDN, options.searchScope,
                      Filter("distinguishedName", options.domainDN, NoText)))
    ELSE IF Includes(rec.username, "@")
    THEN IssueUserSearch(rec, FilterByUPN(rec.username))
    ELSE IssueUserSearch(rec, FilterBySAN(rec.username))

\* A domain check that takes a missing domain entry, or one without an
\* msDS-PrincipalName, for a validated domain.
DomainSearchCompleteAbsentAccepted(c) ==
    /\ call[c].pc = "domainSearch"
    /\ \E outcome \in SearchOutcomes :
         LET rec == call[c]
             promise == SearchPromise(outcome,
                            SearchResults(dir.objects,
                                Filter("distinguishedName", options.domainDN,
                                       NoText)))
             domains == promise.items
             splitUsername == Split(rec.username, "\\")
             netBIOSDomainName == splitUsername[1]
             samAccountName == splitUsername[2]
         IN  call' = [call EXCEPT ![c] =
               IF promise.state = "pending" THEN Hang(rec)
               ELSE IF promise.state = "rejected" THEN Fail(rec, promise.error)
               ELSE IF domains = <<>>
               THEN IssueUserSearch(rec, FilterBySAN(samAccountName))
               ELSE IF domains[1].principalName = NoText
               THEN IssueUserSearch(rec, FilterBySAN(samAccountName))
               ELSE IF DomainName(netBIOSDomainName)
                       = DomainName(domains[1].principalName)
               THEN IssueUserSearch(rec, FilterBySAN(samAccountName))
               ELSE FailNaming(rec, "UnknownDomain", <<netBIOSDomainName>>)]
    /\ UNCHANGED <<dir, options, initialised, boundAs, cache, now, disposePc>>

\* The msDS-PrincipalName search of the down-level branch ends.
DomainSearchComplete(c) ==
    /\ call[c].pc = "domainSearch"
    /\ \E outcome \in SearchOutcomes :
         LET rec == call[c]
             promise == SearchPromise(outcome,
                            SearchResults(dir.objects,
                                Filter("distinguishedName", options.domainDN,
                                       NoText)))
             domains == promise.items
             splitUsername == Split(rec.username, "\\")
             netBIOSDomainName == splitUsername[1]
             samAccountName == splitUsername[2]
         IN  call' = [call EXCEPT ![c] =
               IF promise.state = "pending" THEN Hang(rec)
               ELSE IF promise.state = "rejected" THEN Fail(rec, promise.error)
               ELSE IF domains = <<>> THEN Fail(rec, "TypeError")
               ELSE IF domains[1].principalName = NoText
               THEN Fail(rec, "TypeError")
               ELSE IF DomainName(netBIOSDomainName)
                       = DomainName(domains[1].principalName)
               THEN IssueUserSearch(rec, FilterBySAN(samAccountName))
               ELSE FailNaming(rec, "UnknownDomain", <<netBIOSDomainName>>)]
    /\ UNCHANGED <<dir, options, initialised, boundAs, cache, now, disposePc>>

\* An authenticate that goes on with the undefined user.
FoundUserAbsentAccepted(rec, result) ==
    IF Len(result) = 0
    THEN AfterGroups([rec EXCEPT !.found = "undefined"],
                     [user |-> NoEntry, groups |-> <<>>, groupsAre |-> "user"])
    ELSE IF Len(result) = 1
    THEN StartGroups([rec EXCEPT !.found = "entry"], result[1])
    ELSE FailNaming([rec EXCEPT !.found = "threw"], "Ambiguous",
                    <<Len(result), rec.username>>)

\* A switch that takes the first entry of every non-empty result.
FoundUserFirstOfAny(rec, result) ==
    IF Len(result) = 0
    THEN FailNaming([rec EXCEPT !.found = "undefined"], "NoSuchUser",
                    <<rec.username>>)
    ELSE StartGroups([rec EXCEPT !.found = "entry"], result[1])

\* The switch on result.length that ends #findUser, and what authenticate
\* does with its outcome: undefined is a no-such-user error, an entry goes
\* on to #getGroups.
FoundUser(rec, result) ==
    IF Len(result) = 0
    THEN FailNaming([rec EXCEPT !.found = "undefined"], "NoSuchUser",
                    <<rec.username>>)
    ELSE IF Len(result) = 1
    THEN StartGroups([rec EXCEPT !.found = "entry"], result[1])
    ELSE FailNaming([rec EXCEPT !.found = "threw"], "Ambiguous",
                    <<Len(result), rec.username>>)

\* The user search of #findUser ends; authenticate goes on to the groups.
UserSearchComplete(c) ==
    /\ call[c].pc = "userSearch"
    /\ \E outcome \in SearchOutcomes :
         LET rec == call[c]
             promise == SearchPromise(outcome,
                            SearchResults(dir.objects, rec.filter))
             result == promise.items
         IN  call' = [call EXCEPT ![c] =
               IF promise.state = "pending" THEN Hang(rec)
               ELSE IF promise.state = "rejected" THEN Fail(rec, promise.error)
               ELSE FoundUser([rec EXCEPT !.matches = Len(result)], result)]
    /\ UNCHANGED <<dir, options, initialised, boundAs, cache, now, disposePc>>

\* The user search of #findUser event by event. The server streams the
\* entries that match the filter, in its order, and ends the stream: with
\* status 0 once it has sent them all, with another status at any point.
EntryStream(c) ==
    SelectSeq(dir.objects, LAMBDA o : Matches(o, call[c].filter))
EndStatuses == {0, 4, 32}

\* 'searchEntry': the decoded entry joins items.
SearchEntryEvent(c) ==
    /\ call[c].pc = "userSearch"
    /\ call[c].sent < Len(EntryStream(c))
    /\ call' = [call EXCEPT
                  ![c].sent = @ + 1,
                  ![c].items =
                      Push(@, SearchEntry(dir.objects,
                                          EntryStream(c)[call[c].sent + 1]))]
    /\ UNCHANGED <<dir, options, initialised, boundAs, cache, now, disposePc>>

\* 'error': the promise rejects with the error and #findUser throws it.
SearchErrorEvent(c) ==
    /\ call[c].pc = "userSearch"
    /\ call' = [call EXCEPT ![c] = Fail(call[c], "SearchError")]
    /\ UNCHANGED <<dir, options, initialised, boundAs, cache, now, disposePc>>

\* 'end': a non-zero status rejects with the error that carries the status,
\* status 0 resolves with items and #findUser goes on with them.
SearchEndEvent(c) ==
    /\ call[c].pc = "userSearch"
    /\ \E status \in EndStatuses :
         /\ status = 0 => call[c].sent = Len(EntryStream(c))
         /\ LET rec == [call[c] EXCEPT !.endStatus = <<status>>]
                promise == SearchPromise(IF status = 0 THEN "ok" ELSE "status",
                                         rec.items)
            IN  call' = [call EXCEPT ![c] =
                  IF promise.state = "pending" THEN Hang(rec)
                  ELSE IF promise.state = "rejected"
                  THEN FailNaming(rec, promise.error, <<status>>)
                  ELSE FoundUser([rec EXCEPT
                                      !.matches = Len(promise.items),
                                      !.handed = [given |-> TRUE,
                                                  items |-> promise.items]],
                                 promise.items)]
    /\ UNCHANGED <<dir, options, initialised, boundAs, cache, now, disposePc>>

\* ----------------------------------------------------------- authenticate

\* this.#userClient.bind(username, password, ...). After dispose() the
\* client is undefined and the call throws a TypeError.
IssueBind(rec) ==
    IF ~initialised THEN Fail(rec, "TypeError")
    ELSE [rec EXCEPT !.pc = "bind", !.binds = @ + 1]

\* History: as c starts, a call with the same username and password has
\* returned after storing its result, no longer ago than the expiry time.
StoredEarlier(c, username, password) ==
    /\ initialised
    /\ options.cache
    /\ \E d \in Calls \ {c} :
          /\ call[d].pc = "done"
          /\ call[d].stored
          /\ call[d].username = username
          /\ call[d].password = password
          /\ NowMs - call[d].storedMs <= CacheExpiryMs

\* authenticate without the password guard.
NoGuard(password) == FALSE

\* if (!password): the empty string stands for '', null and undefined.
NoPasswordGiven(password) == password = ""

\* authenticate(username, password) up to its first await.
AuthStart(c, username, password) ==
    /\ call[c].pc = "idle"
    /\ LET rec == [call[c] EXCEPT
                      !.username = username,
                      !.password = password,
                      !.ready = initialised,
                      !.later = StoredEarlier(c, username, password),
                      !.held = CacheHas(cache, username)]
           lookup == initialised /\ ~NoPasswordGiven(password)
                     /\ options.cache
       IN  /\ call' = [call EXCEPT ![c] =
                 IF ~initialised THEN Fail(rec, "NotInitialised")
                 ELSE IF NoPasswordGiven(password)
                 THEN Fail(rec, "NoPassword")
                 ELSE IF options.cache /\ CacheFresh(cache, username, NowMs)
                 THEN [rec EXCEPT !.pc = "compare", !.lookups = @ + 1,
                                  !.lookupMs = NowMs,
                                  !.cached = CacheItem(cache, username)]
                 ELSE IssueBind([rec EXCEPT !.lookups =
                                     IF options.cache THEN @ + 1 ELSE @])]
           /\ cache' = IF lookup THEN LRUTouch(cache, username) ELSE cache
    /\ UNCHANGED <<dir, options, initialised, boundAs, now, disposePc>>

\* A comparison that drops the cached entry when the password differs.
CompareCompleteDropsEntry(c) ==
    /\ call[c].pc = "compare"
    /\ LET rec == call[c]
           same == Compare(rec.password, rec.cached.value.password)
       IN  /\ call' = [call EXCEPT ![c] =
                 IF same
                 THEN [rec EXCEPT !.pc = "done",
                                  !.result = rec.cached.value.user,
                                  !.hit = TRUE]
                 ELSE IssueBind(rec)]
           /\ cache' = IF same THEN cache ELSE Without(cache, rec.username)
    /\ UNCHANGED <<dir, options, initialised, boundAs, now, disposePc>>

\* bcrypt.compare(password, cached.password) ends.
CompareComplete(c) ==
    /\ call[c].pc = "compare"
    /\ LET rec == call[c]
       IN  call' = [call EXCEPT ![c] =
             IF Compare(rec.password, rec.cached.value.password)
             THEN [rec EXCEPT !.pc = "done",
                              !.result = rec.cached.value.user,
                              !.hit = TRUE]
             ELSE IssueBind(rec)]
    /\ UNCHANGED <<dir, options, initialised, boundAs, cache, now, disposePc>>

\* A bind callback that resolves whatever the error.
AfterBindErrorDropped(rec, ok) == FindUser([rec EXCEPT !.bound = ok])

\* The bind callback: an error rejects and authenticate rethrows it;
\* otherwise authenticate goes on to #findUser.
AfterBind(rec, ok) ==
    IF ok THEN FindUser([rec EXCEPT !.bound = TRUE])
    ELSE Fail(rec, "BindError")

\* The bind callback runs: the server accepts a login it knows, and any
\* bind may fail (wrong credentials, transport, destroyed client).
BindComplete(c) ==
    /\ call[c].pc = "bind"
    /\ \E ok \in BOOLEAN :
         /\ ok => initialised
                  /\ <<call[c].username, call[c].password>> \in dir.logins
         /\ call' = [call EXCEPT ![c] = AfterBind(call[c], ok)]
         /\ boundAs' = IF ok THEN call[c].username ELSE NoText
    /\ UNCHANGED <<dir, options, initialised, cache, now, disposePc>>

\* An authenticate that throws what bcrypt.hash throws.
HashCompleteFailureThrown(c) ==
    /\ call[c].pc = "hash"
    /\ \E ok \in BOOLEAN :
         /\ call' = [call EXCEPT ![c] =
                        IF ok
                        THEN [@ EXCEPT !.pc = "done", !.stored = TRUE,
                                       !.storedMs = NowMs]
                        ELSE Fail([@ EXCEPT !.result = NoValue], "HashError")]
         /\ cache' = IF ok
                     THEN CacheSet(cache, call[c].username,
                                   [password |-> Hash(call[c].password),
                                    user |-> call[c].result], NowMs)
                     ELSE cache
    /\ UNCHANGED <<dir, options, initialised, boundAs, now, disposePc>>

\* bcrypt.hash(password, salt) ends: on success the result is cached under
\* the username, on failure that is logged; userWithGroups is returned.
HashComplete(c) ==
    /\ call[c].pc = "hash"
    /\ \E ok \in BOOLEAN :
         /\ call' = [call EXCEPT ![c].pc = "done", ![c].stored = ok,
                                 ![c].storedMs = IF ok THEN NowMs ELSE 0]
         /\ cache' = IF ok
                     THEN CacheSet(cache, call[c].username,
                                   [password |-> Hash(call[c].password),
                                    user |-> call[c].result], NowMs)
                     ELSE cache
    /\ UNCHANGED <<dir, options, initialised, boundAs, now, disposePc>>

\* -------------------------------------------------------------- lifecycle

\* initialise(): the client is created and #initialised set.
Initialise ==
    /\ ~initialised
    /\ disposePc = "idle"
    /\ initialised' = TRUE
    /\ boundAs' = NoText
    /\ UNCHANGED <<dir, options, cache, now, disposePc, call>>

\* What loading tlsOptions.ca comes to: ca is not a string, the certificate
\* was fetched or read, or the fetch or the read failed.
CALoads == {"none", "loaded", "failed"}

\* #handleError(error): the trace line goes to the logger when there is one,
\* then emit('error', error); an EventEmitter without a listener for 'error'
\* throws the error it is asked to emit.
HandleErrorThrows(listener, log) == ~listener

\* initialise() called by c on an instance whose 'error' listener and logger
\* are attached or not: a failed CA load is handed to #handleError inside
\* the catch block; if that throws, initialise rejects before the client is
\* created, otherwise the client is created and #initialised is set.
InitialiseCall(c, load, listener, log) ==
    /\ ~initialised
    /\ disposePc = "idle"
    /\ call[c].pc = "idle"
    /\ IF load = "failed" /\ HandleErrorThrows(listener, log)
       THEN /\ call' = [call EXCEPT ![c] = Fail(@, "CALoadError")]
            /\ UNCHANGED <<initialised, boundAs>>
       ELSE /\ initialised' = TRUE
            /\ boundAs' = NoText
            /\ UNCHANGED call
    /\ UNCHANGED <<dir, options, cache, now, disposePc>>

\* dispose() on an initialised instance: close() calls unbind and waits.
DisposeStart ==
    /\ initialised
    /\ disposePc = "idle"
    /\ disposePc' = "closing"
    /\ UNCHANGED <<dir, options, initialised, boundAs, cache, now, call>>

\* The unbind callback runs: #initialised = false, the client is destroyed.
DisposeFinish ==
    /\ disposePc = "closing"
    /\ disposePc' = "disposed"
    /\ initialised' = FALSE
    /\ boundAs' = NoText
    /\ UNCHANGED <<dir, options, cache, now, call>>

\* A close() that unbinds without asserting that the instance is
\* initialised.
CloseCallNoGuard(c) ==
    /\ call[c].pc = "idle"
    /\ call' = [call EXCEPT ![c].pc = "closing", ![c].unbinds = @ + 1]
    /\ boundAs' = NoText
    /\ UNCHANGED <<dir, options, initialised, cache, now, disposePc>>

\* close() called by c: #assertInitialised, then unbind on the client.
CloseCall(c) ==
    /\ call[c].pc = "idle"
    /\ IF ~initialised
       THEN /\ call' = [call EXCEPT ![c] = Fail(@, "NotInitialised")]
            /\ UNCHANGED boundAs
       ELSE /\ call' = [call EXCEPT ![c].pc = "closing",
                                    ![c].unbinds = @ + 1]
            /\ boundAs' = NoText
    /\ UNCHANGED <<dir, options, initialised, cache, now, disposePc>>

\* The unbind callback of close() runs and close() returns.
CloseComplete(c) ==
    /\ call[c].pc = "closing"
    /\ call' = [call EXCEPT ![c].pc = "done"]
    /\ UNCHANGED <<dir, options, initialised, boundAs, cache, now, disposePc>>

\* dispose() called by c: nothing when the instance is not initialised,
\* otherwise close() and, once unbind has called back, the rest.
DisposeCall(c) ==
    /\ call[c].pc = "idle"
    /\ IF ~initialised
       THEN /\ call' = [call EXCEPT ![c].pc = "done"]
            /\ UNCHANGED <<boundAs, disposePc>>
       ELSE /\ call' = [call EXCEPT ![c].pc = "disposing",
                                    ![c].unbinds = @ + 1]
            /\ boundAs' = NoText
            /\ disposePc' = IF disposePc = "idle" THEN "closing"
                            ELSE disposePc
    /\ UNCHANGED <<dir, options, initialised, cache, now>>

\* dispose() of c after its close(): #initialised = false, then
\* #userClient.destroy() and #userClient = undefined; when another dispose
\* has cleared #userClient already, destroy is called on undefined.
DisposeCallFinish(c) ==
    /\ call[c].pc = "disposing"
    /\ initialised' = FALSE
    /\ IF disposePc = "disposed"
       THEN /\ call' = [call EXCEPT ![c] = Fail(@, "TypeError")]
            /\ UNCHANGED <<boundAs, disposePc>>
       ELSE /\ call' = [call EXCEPT ![c].pc = "done"]
            /\ boundAs' = NoText
            /\ disposePc' = "disposed"
    /\ UNCHANGED <<dir, options, cache, now>>

\* Time passes.
Tick ==
    /\ now < MaxTicks
    /\ now' = now + 1
    /\ UNCHANGED <<dir, options, initialised, boundAs, cache, disposePc, call>>

\* The caller has the outcome of call c; the slot takes a later call. The
\* first call's outcome is kept.
Return(c) ==
    /\ c # 1
    /\ call[c].pc \in {"done", "failed"}
    /\ call' = [call EXCEPT ![c] = IdleCall]
    /\ UNCHANGED <<dir, options, initialised, boundAs, cache, now, disposePc>>

\* ------------------------------------------------------------ constructor

\* An option is <<>> when the property is absent and <<value>> when given.
\* assert.ok passes on a truthy value: a given, non-empty string.
Truthy(option) == option # <<>> /\ option[1] # ""

\* Object.assign(defaults, init): a property of init replaces the default.
Assigned(default, option) == IF option = <<>> THEN default ELSE option[1]

\* No instance has been constructed.
NoInstance == <<>>

\* A constructor that does not assert that domainDN is given.
ConstructorDomainDNUnchecked(init) ==
    IF init = <<>> THEN [error |-> "Options not provided", options |-> NoInstance]
    ELSE IF ~Truthy(init[1].url)
    THEN [error |-> "AD domain controller LDAP URL not defined (options.url)",
          options |-> NoInstance]
    ELSE [error |-> "",
          options |-> [cache |-> init[1].cache, groupSearch |-> TRUE,
                       domainDN |-> Assigned("", init[1].domainDN),
                       searchBase |-> Assigned("", init[1].domainDN),
                       searchScope |-> "sub",
                       groupSearchBase |-> Assigned("", init[1].domainDN),
                       groupSearchScope |-> "sub"]]

\* constructor(init): the three assertions, then this.options, and
\* #getGroups searches for groups only when groupSearchBase and
\* groupSearchFilter are both truthy.
Constructor(init) ==
    IF init = <<>> THEN [error |-> "Options not provided", options |-> NoInstance]
    ELSE IF ~Truthy(init[1].url)
    THEN [error |-> "AD domain controller LDAP URL not defined (options.url)",
          options |-> NoInstance]
    ELSE IF ~Truthy(init[1].domainDN)
    THEN [error |-> "Domain DN not defined (options.domainDN)",
          options |-> NoInstance]
    ELSE LET domainDN == init[1].domainDN[1]
             groupSearchBase == Assigned(domainDN, init[1].groupSearchBase)
             groupSearchFilter == Assigned("(member={{dn}})",
                                           init[1].groupSearchFilter)
         IN  [error |-> "",
              options |-> [cache |-> init[1].cache,
                           groupSearch |-> groupSearchBase # ""
                                           /\ groupSearchFilter # "",
                           domainDN |-> domainDN,
                           searchBase |-> Assigned(domainDN, init[1].searchBase),
                           searchScope |-> "sub",
                           groupSearchBase |-> groupSearchBase,
                           groupSearchScope |-> "sub"]]

\* new ADAuth(init), alone or as the first statement of ADAuth.create.
Construct(c, init) ==
    /\ options = NoInstance
    /\ call[c].pc = "idle"
    /\ LET outcome == Constructor(init)
       IN  IF outcome.error # ""
           THEN /\ call' = [call EXCEPT ![c] = Fail(@, outcome.error)]
                /\ UNCHANGED options
           ELSE /\ options' = outcome.options
                /\ UNCHANGED call
    /\ UNCHANGED <<dir, initialised, boundAs, cache, now, disposePc>>

\* await auth.initialise() on the instance the constructor returned.
InitialiseConstructed ==
    /\ options # NoInstance
    /\ Initialise

\* ------------------------------------------------------------ directories

DomainObject ==
    ServerObject("domain", DomainDN, NoText, NoText, <<>>, NoText, {},
                 <<"D", "\\">>)

UserObject(dn, sam, upn, ad, rid, pgid) ==
    ServerObject("user", dn, sam, upn, IF ad THEN RawSid(rid) ELSE <<>>,
                 pgid, {}, NoText)

GroupObject(i, ad, member) ==
    ServerObject("group", GroupDN(i), NoText, NoText,
                 IF ad THEN RawSid(GroupRid(i)) ELSE <<>>, NoText, member,
                 NoText)

UserA == <<"a">>
UserDownLevel == <<"D", "\\", "a">>
UserC == <<"c">>
Usernames == {UserA, UserDownLevel, UserC}
Passwords == {"", "p", "q"}

\* The directory of the authenticate runs: user a with primary group g2, a
\* member of g1, g1 a member of g2; c can bind but has no user entry.
AuthDirectory ==
    [objects |-> <<DomainObject,
                   UserObject(UserDN, UserA, <<"a", "@", "d">>, TRUE, UserRid,
                              ToDecimal(GroupRid(2))),
                   GroupObject(1, TRUE, {UserDN}),
                   GroupObject(2, TRUE, {GroupDN(1)})>>,
     logins |-> {<<UserA, "p">>, <<UserDownLevel, "p">>, <<UserC, "p">>}]

\* Every directory of NumGroups groups: each group lists any of the user
\* and the groups as members; the server is an AD (objectSid everywhere) or
\* not (nowhere); the user's primaryGroupID is absent, a group's RID, or
\* the RID of no object.
GroupMembers == {UserDN} \cup {GroupDN(i) : i \in 1..NumGroups}
NoSuchRid == 99
PrimaryGroupIDs ==
    {NoText, ToDecimal(NoSuchRid)}
    \cup {ToDecimal(GroupRid(i)) : i \in 1..NumGroups}

GroupDirectory(member, ad, pgid) ==
    [objects |-> <<DomainObject,
                   UserObject(UserDN, UserA, <<"a", "@", "d">>, ad, UserRid,
                              pgid)>>
                 \o [i \in 1..NumGroups |-> GroupObject(i, ad, member[i])],
     logins |-> {<<UserA, "p">>}]

\* A directory of CacheSize + 1 users a0 .. a100, each with password p.
ManyName(n) == <<"a">> \o ToDecimal(n)
ManyUser(n) ==
    UserObject("cn=a" \o ToString(n), ManyName(n), NoText, TRUE, 100 + n,
               NoText)
ManyDirectory ==
    [objects |-> <<DomainObject>> \o [i \in 1..(CacheSize + 1) |-> ManyUser(i - 1)],
     logins |-> {<<ManyName(n), "p">> : n \in 0..CacheSize}]

\* What authenticate returns for user n when group search is not
\* configured: the user entry, with itself as `groups`.
ManyValue(n) ==
    [user |-> SearchEntry(ManyDirectory.objects, ManyUser(n)),
     groups |-> <<>>, groupsAre |-> "user"]

\* The cache after users 0 .. n have authenticated in that order, each
\* stored by Cache.set at time 0: most recently used first.
ManyCache(n) ==
    [i \in 1..(n + 1) |->
        [key |-> ManyName(n + 1 - i),
         value |-> [password |-> Hash("p"), user |-> ManyValue(n + 1 - i)],
         ctime |-> 0]]

\* The directories of the findUser runs: the domain object reports its
\* msDS-PrincipalName as D\ , as d, as X\ , not at all, or the domain search
\* finds no object; user a has one entry or two (cn=a and cn=a2 share the
\* account name and the UPN); a has primary group g1 and is a member of g1.
DomainKinds ==
    {"same", "lower", "other", "doubled", "noattribute", "noobject"}
DomainObjects(kind) ==
    CASE kind = "same" -> <<DomainObject>>
      [] kind = "lower" ->
            <<ServerObject("domain", DomainDN, NoText, NoText, <<>>, NoText,
                           {}, <<"d">>)>>
      [] kind = "other" ->
            <<ServerObject("domain", DomainDN, NoText, NoText, <<>>, NoText,
                           {}, <<"X", "\\">>)>>
      [] kind = "doubled" ->
            <<ServerObject("domain", DomainDN, NoText, NoText, <<>>, NoText,
                           {}, <<"D", "\\", "\\">>)>>
      [] kind = "noattribute" ->
            <<ServerObject("domain", DomainDN, NoText, NoText, <<>>, NoText,
                           {}, NoText)>>
      [] OTHER -> <<>>

FindUserNames ==
    {NoText, UserA, UserC, <<"a", "@", "d">>, <<"c", "@", "d">>,
     UserDownLevel, <<"d", "\\", "a">>, <<"X", "\\", "a">>,
     <<"D", "\\", "c">>, <<"D", "\\", "a", "\\", "b">>,
     <<"D", "\\", "a", "@", "d">>, <<"$", "&">>}

FindUserDirectory(kind, twice) ==
    [objects |-> DomainObjects(kind)
                 \o <<UserObject(UserDN, UserA, <<"a", "@", "d">>, TRUE,
                                 UserRid, ToDecimal(GroupRid(1)))>>
                 \o (IF twice
                     THEN <<UserObject("cn=a2", UserA, <<"a", "@", "d">>,
                                       TRUE, UserRid + 1, NoText)>>
                     ELSE <<>>)
                 \o <<GroupObject(1, TRUE, {UserDN})>>,
     logins |-> {<<u, "p">> : u \in FindUserNames}]

OtherBase == "ou=x,dc=d"

\* this.options with the constructor's defaults: searchBase and
\* groupSearchBase are domainDN, both scopes are 'sub'.
DefaultOptions(useCache, groupSearch) ==
    [cache |-> useCache, groupSearch |-> groupSearch, domainDN |-> DomainDN,
     searchBase |-> DomainDN, searchScope |-> "sub",
     groupSearchBase |-> DomainDN, groupSearchScope |-> "sub"]

\* ---------------------------------------------------------- specifications

\* The instance after `new ADAuth(options)`.
Init ==
    /\ dir = AuthDirectory
    /\ options \in [cache : BOOLEAN, groupSearch : BOOLEAN,
                     domainDN : {DomainDN}, searchBase : {DomainDN},
                     searchScope : {"sub"}, groupSearchBase : {DomainDN},
                     groupSearchScope : {"sub"}]
    /\ initialised = FALSE
    /\ boundAs = NoText
    /\ cache = <<>>
    /\ now = 0
    /\ disposePc = "idle"
    /\ call = [c \in Calls |-> IdleCall]

Next ==
    \/ \E c \in Calls : \E u \in Usernames : \E p \in Passwords :
           AuthStart(c, u, p)
    \/ \E c \in Calls : CompareComplete(c)
    \/ \E c \in Calls : BindComplete(c)
    \/ \E c \in Calls : DomainSearchComplete(c)
    \/ \E c \in Calls : UserSearchComplete(c)
    \/ \E c \in Calls : \E t \in 1..Len(call[c].tasks) :
           GroupSearchComplete(c, t)
    \/ \E c \in Calls : \E t \in 1..Len(call[c].tasks) :
           SIDSearchComplete(c, t)
    \/ \E c \in Calls : HashComplete(c)
    \/ Initialise
    \/ DisposeStart
    \/ DisposeFinish
    \/ Tick

Spec == Init /\ [][Next]_vars

\* One authenticate call of user a on an initialised instance bound as a,
\* its user search in flight, over every directory of NumGroups groups.
InitGroups ==
    /\ \E member \in [1..NumGroups -> SUBSET GroupMembers] :
       \E ad \in BOOLEAN : \E pgid \in PrimaryGroupIDs :
           dir = GroupDirectory(member, ad, pgid)
    /\ options = DefaultOptions(FALSE, TRUE)
    /\ initialised = TRUE
    /\ boundAs = UserA
    /\ cache = <<>>
    /\ now = 0
    /\ disposePc = "idle"
    /\ call = [c \in Calls |->
                 IF c = 1
                 THEN [IdleCall EXCEPT !.pc = "userSearch",
                                       !.username = UserA,
                                       !.password = "p",
                                       !.filter = FilterBySAN(UserA),
                                       !.bound = TRUE, !.binds = 1,
                                       !.searches = 1,
                                       !.issued = <<Search(DomainDN, "sub",
                                                     FilterBySAN(UserA))>>]
                 ELSE IdleCall]

NextGroups ==
    \/ UserSearchComplete(1)
    \/ \E t \in 1..Len(call[1].tasks) : GroupSearchComplete(1, t)
    \/ \E t \in 1..Len(call[1].tasks) : SIDSearchComplete(1, t)

SpecGroups == InitGroups /\ [][NextGroups]_vars

\* A busy instance with the cache and without group search: user a0 has
\* authenticated (call 1, returned and stored), and after it users a1 .. a99
\* have; the cache is full and a0's entry is the least recently used one.
InitMany ==
    /\ dir = ManyDirectory
    /\ options = DefaultOptions(TRUE, FALSE)
    /\ initialised = TRUE
    /\ boundAs = ManyName(CacheSize - 1)
    /\ cache = ManyCache(CacheSize - 1)
    /\ now = 0
    /\ disposePc = "idle"
    /\ call = [c \in Calls |->
                 IF c = 1
                 THEN [IdleCall EXCEPT !.pc = "done",
                                       !.username = ManyName(0),
                                       !.password = "p",
                                       !.filter = FilterBySAN(ManyName(0)),
                                       !.user = ManyValue(0).user,
                                       !.result = ManyValue(0),
                                       !.ready = TRUE,
                                       !.bound = TRUE, !.binds = 1,
                                       !.searches = 1, !.lookups = 1,
                                       !.stored = TRUE,
                                       !.found = "entry", !.matches = 1,
                                       !.issued = <<Search(DomainDN, "sub",
                                              FilterBySAN(ManyName(0)))>>]
                 ELSE IdleCall]

\* Later calls: a0 again, or a user not seen before.
NextMany ==
    \/ \E c \in Calls : \E u \in {ManyName(0), ManyName(CacheSize)} :
       \E p \in {"p", "q"} :
           AuthStart(c, u, p)
    \/ \E c \in Calls : CompareComplete(c)
    \/ \E c \in Calls : BindComplete(c)
    \/ \E c \in Calls : UserSearchComplete(c)
    \/ \E c \in Calls : HashComplete(c)
    \/ \E c \in Calls : Return(c)
    \/ Tick

SpecMany == InitMany /\ [][NextMany]_vars

\* One authenticate call on an initialised instance, over the identifier
\* forms, the directories of the findUser runs and the configured user
\* search base and scope.
InitUser ==
    /\ \E kind \in DomainKinds : \E twice \in BOOLEAN :
           dir = FindUserDirectory(kind, twice)
    /\ options \in [cache : BOOLEAN, groupSearch : BOOLEAN,
                     domainDN : {DomainDN}, searchBase : {DomainDN, OtherBase},
                     searchScope : {"sub", "one"},
                     groupSearchBase : {DomainDN},
                     groupSearchScope : {"sub"}]
    /\ initialised = TRUE
    /\ boundAs = NoText
    /\ cache = <<>>
    /\ now = 0
    /\ disposePc = "idle"
    /\ call = [c \in Calls |-> IdleCall]

NextUser ==
    \/ \E u \in FindUserNames : AuthStart(1, u, "p")
    \/ BindComplete(1)
    \/ DomainSearchComplete(1)
    \/ UserSearchComplete(1)
    \/ \E t \in 1..Len(call[1].tasks) : GroupSearchComplete(1, t)
    \/ \E t \in 1..Len(call[1].tasks) : SIDSearchComplete(1, t)
    \/ HashComplete(1)

SpecUser == InitUser /\ [][NextUser]_vars

\* Every search the client has accepted ends: its callback or one of its
\* events arrives (the connection's timeout ends a search that gets no
\* answer with an error).
FairSpecGroups == SpecGroups /\ WF_vars(NextGroups)

\* binarySIDToString as #search applies it to the objectSid of an entry: the
\* one user of the directory carries any well-formed binary SID of revision
\* 1 with up to MaxSubAuthorities sub-authorities, its authority bytes and
\* sub-authorities taken from AuthorityBytes and SubAuthorityBytes, and the
\* call has bound and issued its user search.
MaxSubAuthorities == 2
AuthorityBytes ==
    {<<b2, 0, b4, 0, b6, b7>> :
        b2 \in {0, 1}, b4 \in {0, 128}, b6 \in {0, 1},
        b7 \in {0, 5, 9, 10, 16, 255}}
SubAuthorityBytes ==
    {<<0, 0, 0, 0>>, <<21, 0, 0, 0>>, <<0, 1, 0, 0>>, <<1, 2, 3, 4>>,
     <<255, 255, 255, 127>>, <<0, 0, 0, 128>>, <<255, 255, 255, 255>>}
SIDInputs ==
    UNION {{<<1, n>> \o authority
            \o [k \in 1..(4 * n) |->
                   subs[((k - 1) \div 4) + 1][((k - 1) % 4) + 1]] :
              authority \in AuthorityBytes,
              subs \in [1..n -> SubAuthorityBytes]} :
           n \in 0..MaxSubAuthorities}
SIDDirectory(raw) ==
    [objects |-> <<DomainObject,
                   ServerObject("user", UserDN, UserA, <<"a", "@", "d">>, raw,
                                NoText, {}, NoText)>>,
     logins |-> {<<UserA, "p">>}]

InitSID ==
    /\ \E raw \in SIDInputs : dir = SIDDirectory(raw)
    /\ options = DefaultOptions(FALSE, FALSE)
    /\ initialised = TRUE
    /\ boundAs = UserA
    /\ cache = <<>>
    /\ now = 0
    /\ disposePc = "idle"
    /\ call = [c \in Calls |->
                 IF c = 1
                 THEN [IdleCall EXCEPT !.pc = "userSearch",
                                       !.username = UserA,
                                       !.password = "p",
                                       !.filter = FilterBySAN(UserA),
                                       !.bound = TRUE, !.binds = 1,
                                       !.searches = 1,
                                       !.issued = <<Search(DomainDN, "sub",
                                                     FilterBySAN(UserA))>>]
                 ELSE IdleCall]

NextSID == UserSearchComplete(1)

SpecSID == InitSID /\ [][NextSID]_vars

\* binaryGUIDToString as #search applies it to the objectGUID of an entry: the
\* one user of the directory carries GUIDBase or GUIDBase with up to two of
\* its sixteen bytes replaced by 0, 10, 15, 16 or 255.
GUIDBase ==
    <<17, 34, 51, 68, 85, 102, 119, 136, 153, 170, 187, 204, 221, 238, 255,
      16>>
GUIDInputs ==
    LET values == {0, 10, 15, 16, 255}
    IN  {GUIDBase}
        \cup {[GUIDBase EXCEPT ![i] = v, ![j] = w] :
                i \in DOMAIN GUIDBase, j \in DOMAIN GUIDBase,
                v \in values, w \in values}
GUIDDirectory(raw) ==
    [objects |-> <<DomainObject,
                   WithGuid(UserObject(UserDN, UserA, <<"a", "@", "d">>, TRUE,
                                       UserRid, NoText), raw)>>,
     logins |-> {<<UserA, "p">>}]

InitGUID ==
    /\ \E raw \in GUIDInputs : dir = GUIDDirectory(raw)
    /\ options = DefaultOptions(FALSE, FALSE)
    /\ initialised = TRUE
    /\ boundAs = UserA
    /\ cache = <<>>
    /\ now = 0
    /\ disposePc = "idle"
    /\ call = [c \in Calls |->
                 IF c = 1
                 THEN [IdleCall EXCEPT !.pc = "userSearch",
                                       !.username = UserA,
                                       !.password = "p",
                                       !.filter = FilterBySAN(UserA),
                                       !.bound = TRUE, !.binds = 1,
                                       !.searches = 1,
                                       !.issued = <<Search(DomainDN, "sub",
                                                     FilterBySAN(UserA))>>]
                 ELSE IdleCall]

NextGUID == UserSearchComplete(1)

SpecGUID == InitGUID /\ [][NextGUID]_vars

\* #search event by event: up to MaxEntries users answer the user search of
\* the call, each with or without a binary objectSid and objectGUID.
MaxEntries == 3
StreamDirectory(n, hasSid, hasGuid) ==
    [objects |->
        <<DomainObject>>
        \o [i \in 1..n |->
               WithGuid(UserObject(<<"cn=a", "cn=a2", "cn=a3", "cn=a4">>[i],
                                   UserA, <<"a", "@", "d">>, hasSid[i],
                                   UserRid + i, NoText),
                        IF hasGuid[i] THEN [GUIDBase EXCEPT ![1] = i]
                        ELSE <<>>)],
     logins |-> {<<UserA, "p">>}]

InitSearch ==
    /\ \E n \in 0..MaxEntries :
       \E hasSid \in [1..n -> BOOLEAN] : \E hasGuid \in [1..n -> BOOLEAN] :
           dir = StreamDirectory(n, hasSid, hasGuid)
    /\ options = DefaultOptions(FALSE, FALSE)
    /\ initialised = TRUE
    /\ boundAs = UserA
    /\ cache = <<>>
    /\ now = 0
    /\ disposePc = "idle"
    /\ call = [c \in Calls |->
                 IF c = 1
                 THEN [IdleCall EXCEPT !.pc = "userSearch",
                                       !.username = UserA,
                                       !.password = "p",
                                       !.filter = FilterBySAN(UserA),
                                       !.bound = TRUE, !.binds = 1,
                                       !.searches = 1,
                                       !.issued = <<Search(DomainDN, "sub",
                                                     FilterBySAN(UserA))>>]
                 ELSE IdleCall]

NextSearch ==
    \/ SearchEntryEvent(1)
    \/ SearchErrorEvent(1)
    \/ SearchEndEvent(1)

SpecSearch == InitSearch /\ [][NextSearch]_vars

\* The instance of Spec with its whole life: initialised by a caller, with
\* any CA load and any attachment of listener and logger, closed and
\* disposed by callers.
NextInitialise ==
    \/ \E c \in Calls : \E load \in CALoads :
       \E listener \in BOOLEAN : \E log \in BOOLEAN :
           InitialiseCall(c, load, listener, log)
    \/ \E c \in Calls : \E u \in Usernames : \E p \in Passwords :
           AuthStart(c, u, p)
    \/ \E c \in Calls : CompareComplete(c)
    \/ \E c \in Calls : BindComplete(c)
    \/ \E c \in Calls : DomainSearchComplete(c)
    \/ \E c \in Calls : UserSearchComplete(c)
    \/ \E c \in Calls : \E t \in 1..Len(call[c].tasks) :
           GroupSearchComplete(c, t)
    \/ \E c \in Calls : \E t \in 1..Len(call[c].tasks) :
           SIDSearchComplete(c, t)
    \/ \E c \in Calls : HashComplete(c)
    \/ \E c \in Calls : CloseCall(c)
    \/ \E c \in Calls : CloseComplete(c)
    \/ \E c \in Calls : DisposeCall(c)
    \/ \E c \in Calls : DisposeCallFinish(c)

SpecInitialise == Init /\ [][NextInitialise]_vars

\* Nothing constructed yet; the caller passes any of these to the constructor.
OptionalText(values) == {<<>>} \cup {<<v>> : v \in values}

InitArguments ==
    {<<>>} \cup
    {<<init>> : init \in [url : OptionalText({"", "ldap://d"}),
                          domainDN : OptionalText({"", DomainDN, OtherBase}),
                          cache : BOOLEAN,
                          searchBase : OptionalText({"", OtherBase}),
                          groupSearchBase : OptionalText({"", OtherBase}),
                          groupSearchFilter : OptionalText({"", "(member={{dn}})"})]}

InitCreate ==
    /\ dir = AuthDirectory
    /\ options = NoInstance
    /\ initialised = FALSE
    /\ boundAs = NoText
    /\ cache = <<>>
    /\ now = 0
    /\ disposePc = "idle"
    /\ call = [c \in Calls |-> IdleCall]

NextCreate ==
    \/ \E c \in Calls : \E init \in InitArguments : Construct(c, init)
    \/ InitialiseConstructed
    \/ DisposeStart
    \/ DisposeFinish

SpecCreate == InitCreate /\ [][NextCreate]_vars

\* escapeADString on its own: every text of up to MaxEscapeLen characters
\* of EscapeAlphabet is an argument, and the one step applies the function to
\* it. The alphabet holds safe characters (space, a, $), the nine characters
\* of adSpecialChars and three further unsafe ones (the tab has a code below
\* 16).
MaxEscapeLen == 3
EscapeAlphabet ==
    {" ", "a", "$", ",", "\\", "#", "+", "<", ">", ";", "\"", "=", "*", "(",
     "\t"}
EscapeInputs ==
    UNION {[1..n -> EscapeAlphabet] : n \in 0..MaxEscapeLen}

InitEscape ==
    /\ dir = AuthDirectory
    /\ options = DefaultOptions(FALSE, FALSE)
    /\ initialised = TRUE
    /\ boundAs = NoText
    /\ cache = <<>>
    /\ now = 0
    /\ disposePc = "idle"
    /\ \E str \in EscapeInputs :
         call = [c \in Calls |->
                    IF c = 1 THEN [IdleCall EXCEPT !.username = str]
                    ELSE IdleCall]

\* es = escapeADString(str), kept as the text of the call's filter.
Escape(c) ==
    /\ call[c].pc = "idle"
    /\ call' = [call EXCEPT ![c].pc = "escaped",
                            ![c].filter =
                                Filter("", "", escapeADString(call[c].username))]
    /\ UNCHANGED <<dir, options, initialised, boundAs, cache, now, disposePc>>

NextEscape == Escape(1)

SpecEscape == InitEscape /\ [][NextEscape]_vars

\* ------------------------------------------------------------- properties

Range(seq) == {seq[i] : i \in 1..Len(seq)}
DNs(entries) == {entries[i].dn : i \in 1..Len(entries)}
Returned(c) == call[c].pc = "done"
Ended(c) == call[c].pc \in {"done", "failed"}

TheUser == CHOOSE o \in Range(dir.objects) : o.kind = "user"
TheGroups == {o \in Range(dir.objects) : o.kind = "group"}
IsAD == TheUser.rawSid # <<>>

\* The groups that list dn as a member.
GroupsOf(dn) == {g.dn : g \in {o \in TheGroups : dn \in o.member}}

\* The user's primary group: the group whose RID is the user's
\* primaryGroupID (objects carry a SID on an AD only).
PrimaryGroups ==
    {g.dn : g \in {o \in TheGroups :
        /\ IsAD
        /\ \E i \in 1..NumGroups :
              o.dn = GroupDN(i)
              /\ ToDecimal(GroupRid(i)) = TheUser.primaryGroupID}}

RECURSIVE Closure(_)
Closure(S) ==
    LET more == S \cup UNION {GroupsOf(dn) : dn \in S}
    IN  IF more = S THEN S ELSE Closure(more)

\* Every group reachable from the user through membership links.
EffectiveGroups == Closure(GroupsOf(TheUser.dn) \cup PrimaryGroups)

\* C2: a call of authenticate that has returned a user either bound, in
\* that call, with its username and password and the server accepted
\* them, or found in the cache an entry under its username, stored at most
\* the expiry time before the lookup, whose hash is the hash of its
\* password, and returned that entry's user. Calls interleave freely.
C2_ReturnsOnlyVerified ==
    \A c \in Calls :
        LET rec == call[c]
        IN  Returned(c) =>
              \/ /\ rec.bound
                 /\ rec.binds >= 1
                 /\ <<rec.username, rec.password>> \in dir.logins
              \/ /\ rec.hit
                 /\ options.cache
                 /\ rec.cached.key = rec.username
                 /\ rec.cached.value.password = Hash(rec.password)
                 /\ rec.lookupMs - rec.cached.ctime <= CacheExpiryMs
                 /\ rec.result = rec.cached.value.user

\* One call has returned from the cache and another after its own bind.
C2_Witness ==
    \E c \in Calls : \E d \in Calls :
        /\ Returned(c) /\ call[c].hit /\ call[c].binds = 0
        /\ Returned(d) /\ call[d].bound

\* C3: a call has issued a search only after its bind succeeded, and a
\* call whose bind failed has failed with the bind's error, has issued no
\* search and has written nothing to the cache.
C3_BindBeforeSearch ==
    \A c \in Calls :
        LET rec == call[c]
        IN  /\ rec.searches > 0 => (rec.bound /\ rec.binds = 1)
            /\ rec.pc = "bind" => (rec.searches = 0 /\ ~rec.stored)
            /\ (rec.binds = 1 /\ ~rec.bound /\ rec.pc # "bind") =>
                  /\ rec.pc = "failed"
                  /\ rec.error = "BindError"
                  /\ rec.searches = 0
                  /\ ~rec.stored
                  /\ \A i \in 1..Len(cache) :
                        cache[i].key = rec.username =>
                            \E d \in Calls \ {c} :
                                call[d].stored /\ call[d].username = rec.username

\* With a cache configured, one call missed the cache and its bind failed,
\* and another call bound and searched.
C3_Witness ==
    \E c \in Calls : \E d \in Calls :
        /\ options.cache
        /\ call[c].lookups = 1 /\ call[c].error = "BindError"
        /\ call[d].bound /\ call[d].searches > 0

\* C4: on an initialised instance, a call of authenticate without a
\* password (empty, null or undefined) has failed with the missing-password
\* error and has done no cache lookup, no bind and no search, whatever the
\* username and whatever the cache holds.
C4_NoPasswordFailsFirst ==
    \A c \in Calls :
        LET rec == call[c]
        IN  (rec.pc # "idle" /\ rec.ready /\ rec.password = "") =>
              /\ rec.pc = "failed"
              /\ rec.error = "NoPassword"
              /\ rec.lookups = 0
              /\ rec.binds = 0
              /\ rec.searches = 0

\* A call without a password has failed while the cache held an entry
\* under its username.
C4_Witness ==
    \E c \in Calls :
        /\ call[c].ready
        /\ call[c].password = ""
        /\ call[c].error = "NoPassword"
        /\ CacheHas(cache, call[c].username)

\* The claim as worded: a call made after a call with the same username
\* and password returned and stored its result, before the expiry time has
\* passed, does no bind and no search and returns the same user.
C5_AsWorded ==
    \A c \in Calls :
        LET rec == call[c]
        IN  (rec.pc # "idle" /\ rec.later) =>
              /\ rec.pc \in {"compare", "done"}
              /\ rec.binds = 0
              /\ rec.searches = 0

\* C5: a call made after a call with the same username and password
\* returned and stored its result, before the expiry time has passed and
\* while the cache still holds an entry under that username (it holds the
\* 100 most recently used usernames), does no bind and no search and
\* returns a user equal to the one the earlier call returned.
C5_CachedWhileHeld ==
    \A c \in Calls :
        LET rec == call[c]
        IN  (rec.pc # "idle" /\ rec.later /\ rec.held) =>
              /\ rec.pc \in {"compare", "done"}
              /\ rec.binds = 0
              /\ rec.searches = 0
              /\ rec.pc = "done" =>
                    \A d \in Calls \ {c} :
                        (/\ call[d].pc = "done"
                         /\ call[d].stored
                         /\ call[d].username = rec.username
                         /\ call[d].password = rec.password)
                            => rec.result = call[d].result

\* A later call of a0 has returned the first call's user from the cache.
C5_Witness ==
    \E c \in Calls \ {1} :
        /\ call[c].pc = "done"
        /\ call[c].later
        /\ call[c].held
        /\ call[c].hit
        /\ call[c].binds = 0
        /\ call[c].result = call[1].result

\* C1: on an AD, when no search has failed, the groups resolveGroups
\* returns are exactly the groups reachable from the user through one or
\* more membership links (direct groups, the primary group, and the groups
\* those are members of, at any depth).
C1_TransitiveClosure ==
    (Returned(1) /\ IsAD /\ ~call[1].lost)
        => DNs(call[1].result.groups) = EffectiveGroups

\* C6: a call in which a membership search or the primary-group SID search
\* failed never returns a group list; it fails.
C6_FailedSearchFailsCall == call[1].lost => ~Returned(1)

\* C7: resolveGroups terminates on every directory, cyclic ones included:
\* the call eventually returns or fails.
C7_Terminates == <>Ended(1)

\* A directory with two groups that are members of each other, one of them
\* holding the user, on which the call has returned.
C7_Witness ==
    /\ Returned(1)
    /\ \E g \in TheGroups : \E h \in TheGroups :
          /\ g.dn # h.dn
          /\ TheUser.dn \in g.member
          /\ g.dn \in h.member
          /\ h.dn \in g.member

NoDuplicateDN(entries) ==
    \A i \in 1..Len(entries) : \A j \in 1..Len(entries) :
        entries[i].dn = entries[j].dn => i = j

\* C8: the returned sequence holds no dn twice, and every group a
\* membership search (or the primary-group lookup) delivered is in it under
\* its dn: a group is left out only if its dn is already there.
C8_DedupByDN ==
    Returned(1) =>
        /\ NoDuplicateDN(call[1].result.groups)
        /\ \A t \in 1..Len(call[1].tasks) :
              DNs(call[1].tasks[t].groups) \subseteq DNs(call[1].result.groups)

\* C9: the primary-group lookup searches for the user's objectSid up to
\* and including its last '-' followed by primaryGroupID (S-1-5-7 with
\* primaryGroupID 12 gives S-1-5-12), once; an entry without primaryGroupID
\* causes no lookup.
C9_PrimaryGroupSID ==
    LET rec == call[1]
        sid == rec.user.objectSid
        pgid == rec.user.primaryGroupID
    IN  /\ rec.sids # <<>> =>
              /\ pgid # NoText
              /\ Len(rec.sids) = 1
              /\ rec.sids[1] = <<"S", "-", "1", "-", "5", "-">> \o pgid
              /\ \A k \in 1..Len(sid) :
                    (sid[k] = "-" /\ \A j \in (k + 1)..Len(sid) : sid[j] # "-")
                        => rec.sids[1] = SubSeq(sid, 1, k) \o pgid
        /\ (Returned(1) /\ pgid # NoText) => Len(rec.sids) = 1
        /\ pgid = NoText => rec.sids = <<>>

\* The call has returned after looking up S-1-5-12 for primaryGroupID 12.
C9_Witness ==
    /\ Returned(1)
    /\ call[1].user.objectSid = <<"S", "-", "1", "-", "5", "-", "7">>
    /\ call[1].user.primaryGroupID = <<"1", "2">>
    /\ call[1].sids = << <<"S", "-", "1", "-", "5", "-", "1", "2">> >>

\* C10: when the user's primary group is found, it is the first element
\* of the returned group sequence.
C10_PrimaryGroupFirst ==
    (Returned(1) /\ call[1].primary # NoEntry) =>
        /\ call[1].result.groups # <<>>
        /\ call[1].result.groups[1] = call[1].primary

\* The call has returned the primary group and a group of the membership
\* search behind it.
C10_Witness ==
    /\ Returned(1)
    /\ call[1].primary # NoEntry
    /\ Len(call[1].result.groups) >= 2
    /\ call[1].result.groups[2].dn \in GroupsOf(TheUser.dn)

\* C11: whenever the user's primary group is found, the returned user's
\* memberOf is a sequence: the primary group's dn, then the values memberOf
\* had (the server's listing of the user's groups), in their order.
C11_MemberOfPrepended ==
    (Returned(1) /\ call[1].primary # NoEntry) =>
        LET memberOf == call[1].result.user.memberOf
        IN  /\ memberOf.kind = "array"
            /\ memberOf.v = <<call[1].primary.dn>>
                            \o MemberOfAttr(dir.objects, TheUser.dn).v

\* The domain objects of the directory and, for a down-level identifier,
\* the name in front of its first backslash.
TheDomains == {o \in Range(dir.objects) : o.kind = "domain"}
IsDownLevel(username) == Includes(username, "\\")
SuppliedDomain(username) ==
    SubSeq(username, 1,
           (CHOOSE k \in 1..Len(username) :
               username[k] = "\\" /\ \A j \in 1..(k - 1) : username[j] # "\\")
           - 1)
\* The domain reports the supplied name, in any case, with or without a
\* backslash behind it.
DomainMatches(username) ==
    \E o \in TheDomains :
        ToUpperCase(o.principalName)
            \in {ToUpperCase(SuppliedDomain(username)),
                 ToUpperCase(SuppliedDomain(username)) \o <<"\\">>}
DomainDiffers(username) ==
    \E o \in TheDomains :
        o.principalName # NoText /\ ~DomainMatches(username)
DomainSearch ==
    Search(DomainDN, options.searchScope,
           Filter("distinguishedName", DomainDN, NoText))
SearchFailed(c) == call[c].error \in {"SearchError", "NonZeroStatus"}
PastDomainSearch(c) ==
    call[c].bound /\ call[c].pc \notin {"bind", "domainSearch"}

\* C12: for a down-level identifier the first search a call issues is the
\* domain search and no later one is; when the domain's msDS-PrincipalName
\* differs from the supplied name the call fails with the unknown-domain
\* error carrying the supplied name and has issued that one search only;
\* when it matches, the user search follows.
C12_DomainSearchFirst ==
    LET rec == call[1]
    IN  (rec.bound /\ IsDownLevel(rec.username)) =>
          /\ rec.issued # <<>>
          /\ rec.issued[1] = DomainSearch
          /\ \A i \in 2..Len(rec.issued) :
                rec.issued[i].filter.attr # "distinguishedName"
          /\ (PastDomainSearch(1) /\ ~SearchFailed(1)
              /\ DomainDiffers(rec.username)) =>
                /\ rec.pc = "failed"
                /\ rec.error = "UnknownDomain"
                /\ rec.detail = <<SuppliedDomain(rec.username)>>
                /\ Len(rec.issued) = 1
          /\ (PastDomainSearch(1) /\ DomainMatches(rec.username)
              /\ Len(rec.issued) = 1) => SearchFailed(1)
          /\ Len(rec.issued) >= 2 =>
                rec.issued[2].filter.attr = "samAccountName"

\* X\a on a domain that reports D\ : the call has failed with the
\* unknown-domain error naming X after its one search.
C12_Witness ==
    /\ call[1].username = <<"X", "\\", "a">>
    /\ \E o \in TheDomains : o.principalName = <<"D", "\\">>
    /\ call[1].error = "UnknownDomain"
    /\ call[1].detail = << <<"X">> >>
    /\ call[1].issued = <<DomainSearch>>

\* The user objects of the directory whose account name is the given name.
UsersNamed(name) ==
    {i \in DOMAIN dir.objects :
        /\ dir.objects[i].kind = "user"
        /\ dir.objects[i].sAMAccountName = name}

\* C13: once the user search of a call has delivered its entries, findUser
\* has returned the entry when there is exactly one, undefined when there is
\* none, and has thrown the error carrying the number of matches and the
\* username when there are more; for a plain account name the number of
\* matches is the number of users of that name in the directory.
C13_ExactlyOneMatch ==
    LET rec == call[1]
    IN  rec.found # "" =>
          /\ rec.username \in {<<"a">>, <<"c">>} =>
                rec.matches = Cardinality(UsersNamed(rec.username))
          /\ rec.matches = 0 =>
                rec.found = "undefined" /\ rec.user = NoEntry
          /\ rec.matches = 1 =>
                /\ rec.found = "entry"
                /\ LET entry == SearchEntry(dir.objects, TheUser)
                   IN  /\ rec.user.dn = entry.dn
                       /\ rec.user.objectSid = entry.objectSid
                       /\ rec.user.primaryGroupID = entry.primaryGroupID
          /\ rec.matches >= 2 =>
                /\ rec.found = "threw"
                /\ rec.user = NoEntry
                /\ rec.pc = "failed"
                /\ rec.error = "Ambiguous"
                /\ rec.detail = <<rec.matches, rec.username>>

\* Two users share the account name a: the call has failed with the error
\* carrying 2 and the username.
C13_Witness ==
    /\ call[1].username = <<"a">>
    /\ Cardinality(UsersNamed(<<"a">>)) = 2
    /\ call[1].found = "threw"
    /\ call[1].error = "Ambiguous"
    /\ call[1].detail = <<2, <<"a">> >>

\* The searches resolveGroups issues: for the groups of an object and for
\* its primary group.
GroupSearches(c) ==
    {i \in DOMAIN call[c].issued :
        call[c].issued[i].filter.attr \in {"member", "objectSid"}}

\* C14: a call that has bound and whose user search has delivered no entry
\* has failed with the no-such-user error carrying the username, has issued
\* no group search and has put nothing into the cache.
C14_NoSuchUser ==
    LET rec == call[1]
    IN  (rec.bound /\ rec.found # "" /\ rec.matches = 0) =>
          /\ rec.pc = "failed"
          /\ rec.error = "NoSuchUser"
          /\ rec.detail = <<rec.username>>
          /\ GroupSearches(1) = {}
          /\ ~rec.stored
          /\ cache = <<>>

\* The user c is not in the directory, group search and cache are
\* configured: the call has failed after its bind and its user search.
C14_Witness ==
    /\ call[1].username = <<"c">>
    /\ options.cache /\ options.groupSearch
    /\ call[1].bound
    /\ call[1].found = "undefined"
    /\ call[1].error = "NoSuchUser"
    /\ Len(call[1].issued) = 1

\* The user searches a call has issued, and the text of a down-level
\* identifier behind its first backslash.
UserSearches(c) ==
    {i \in DOMAIN call[c].issued :
        call[c].issued[i].filter.attr
            \notin {"distinguishedName", "member", "objectSid"}}
AccountPart(username) ==
    SubSeq(username, Len(SuppliedDomain(username)) + 2, Len(username))
\* The filter the identifier's form asks for: the template of the form with
\* the escaped value in the place of its placeholder.
FilterOfForm(username) ==
    IF IsDownLevel(username)
    THEN Filter("samAccountName", "", escapeADString(AccountPart(username)))
    ELSE IF Includes(username, "@")
    THEN Filter("userPrincipalName", "", escapeADString(username))
    ELSE Filter("samAccountName", "", escapeADString(username))

\* C15: a call issues at most one user search, and exactly one once
\* findUser has ended its search; that search is at options.searchBase with
\* options.searchScope and its filter is the one of the identifier's form:
\* down-level before UPN before bare account name.
C15_FilterByForm ==
    LET rec == call[1]
    IN  /\ Cardinality(UserSearches(1)) <= 1
        /\ rec.found # "" => Cardinality(UserSearches(1)) = 1
        /\ \A i \in UserSearches(1) :
              rec.issued[i] = Search(options.searchBase, options.searchScope,
                                     FilterOfForm(rec.username))

RECURSIVE PutIn(_, _, _)
\* The template with the value in the place of every placeholder, the value
\* taken character by character as it stands.
PutIn(template, placeholder, value) ==
    IF template = <<>> THEN <<>>
    ELSE (IF Head(template) = placeholder THEN value ELSE <<Head(template)>>)
         \o PutIn(Tail(template), placeholder, value)
\* The value findUser substitutes: the account name it split off a
\* down-level identifier, the whole identifier otherwise.
SubstitutedValue(username) ==
    IF IsDownLevel(username) THEN Split(username, "\\")[2] ELSE username
SubstitutedFilter(username) ==
    IF ~IsDownLevel(username) /\ Includes(username, "@")
    THEN ParseFilter(PutIn(searchFilterByUPN, PlaceholderUPN,
                           escapeADString(SubstitutedValue(username))))
    ELSE ParseFilter(PutIn(searchFilterBySAN, PlaceholderUsername,
                           escapeADString(SubstitutedValue(username))))

\* C16: the filter of every user search is the template with each
\* placeholder replaced by exactly the escaped value, whatever characters
\* the value holds.
C16_FilterIsTemplateWithValue ==
    \A i \in UserSearches(1) :
        call[1].issued[i].filter = SubstitutedFilter(call[1].username)

\* The characters of adSpecialChars.
LDAPSpecial == {",", "\\", "#", "+", "<", ">", ";", "\"", "="}
\* The argument and the result of the escape step.
Escaped(c) == call[c].pc = "escaped"
EscapeArgument == call[1].username
EscapeResult == call[1].filter.text
\* A character as the rule of the special characters renders it.
CharByRule(ch) ==
    IF ch \in SafeChars THEN <<ch>>
    ELSE IF ch \in LDAPSpecial THEN <<"\\", ch>>
    ELSE <<"\\", HexDigits[(CharCode(ch) \div 16) + 1],
           HexDigits[(CharCode(ch) % 16) + 1]>>
RECURSIVE TextByRule(_)
TextByRule(str) ==
    IF str = <<>> THEN <<>>
    ELSE CharByRule(Head(str)) \o TextByRule(Tail(str))
SpaceAtBoundary(str) ==
    str # <<>> /\ (str[1] = " " \/ str[Len(str)] = " ")

\* C17: the result of escaping a text without a space at either end is the
\* text with every safe character copied, every character of adSpecialChars
\* preceded by a backslash, and every other character replaced by a
\* backslash and the two lowercase hex digits of its code.
C17_EscapeByRule ==
    (Escaped(1) /\ ~SpaceAtBoundary(EscapeArgument)) =>
        EscapeResult = TextByRule(EscapeArgument)

\* The argument character by character: a space at either end as \20, every
\* other character as the character-level step leaves it.
WithBoundarySpaces(str) ==
    LET piece(i) == IF str[i] = " " /\ i \in {1, Len(str)}
                    THEN <<"\\", "2", "0">>
                    ELSE EscapeChars(<<str[i]>>)
        upTo[i \in 0..Len(str)] ==
            IF i = 0 THEN <<>> ELSE upTo[i - 1] \o piece(i)
    IN  upTo[Len(str)]
PlainSpaces(text) == Len(SelectSeq(text, LAMBDA ch : ch = " "))
InteriorSpaces(str) ==
    Cardinality({i \in 2..(Len(str) - 1) : str[i] = " "})

\* C18: in the result of escaping any text a space at the first or the last
\* position has become \20, so the result neither begins nor ends with a
\* space, and the plain spaces left are exactly the interior spaces of the
\* argument; a text of one space gives \20, one of spaces only gives \20
\* at both ends.
C18_BoundarySpaces ==
    Escaped(1) =>
        /\ EscapeResult = WithBoundarySpaces(EscapeArgument)
        /\ EscapeResult # <<>> =>
              EscapeResult[1] # " " /\ EscapeResult[Len(EscapeResult)] # " "
        /\ PlainSpaces(EscapeResult) = InteriorSpaces(EscapeArgument)
        /\ EscapeArgument = <<" ">> => EscapeResult = <<"\\", "2", "0">>

\* Three spaces have been escaped to \20, a space and \20.
C18_Witness ==
    /\ Escaped(1)
    /\ EscapeArgument = <<" ", " ", " ">>
    /\ EscapeResult = <<"\\", "2", "0", " ", "\\", "2", "0">>

\* The binary SID of the user and the text #search has decoded it to.
Decoded == call[1].found = "entry"
BinarySID == TheUser.rawSid
DecodedSID == call[1].user.objectSid
\* S, the revision and the 48-bit big-endian value of bytes 2-7 in decimal.
SIDHead(raw) ==
    <<"S", "-">> \o ToDecimal(raw[1]) \o <<"-">>
    \o LimbsToDecimal(<<raw[3] * 256 + raw[4], raw[5] * 256 + raw[6],
                        raw[7] * 256 + raw[8]>>)
\* S-<digits>-<digits>(-<digits>)*
IsSIDText(text) ==
    /\ Len(text) >= 5
    /\ text[1] = "S" /\ text[2] = "-"
    /\ text[Len(text)] # "-"
    /\ \A i \in 3..Len(text) :
          /\ text[i] = "-" \/ \E d \in 1..10 : Digits[d] = text[i]
          /\ text[i] = "-" => text[i - 1] # "-"
    /\ Cardinality({i \in 3..Len(text) : text[i] = "-"}) >= 1

\* C19: the decoded text of every binary SID begins with S, the revision
\* and the authority as the decimal integer of bytes 2-7 read big-endian,
\* followed by the end of the text or a hyphen, and the whole text has the
\* shape S-<digits>-<digits>(-<digits>)*.
C19_AuthorityDecimal ==
    Decoded =>
        LET head == SIDHead(BinarySID)
        IN  /\ Len(DecodedSID) >= Len(head)
            /\ SubSeq(DecodedSID, 1, Len(head)) = head
            /\ Len(DecodedSID) > Len(head) => DecodedSID[Len(head) + 1] = "-"
            /\ IsSIDText(DecodedSID)

\* The unsigned 32-bit little-endian value of four bytes in decimal: with h
\* half the value (rounded down), the value's last digit is twice h mod 5
\* plus the lowest bit, and the digits before it are those of h div 5.
Unsigned32Decimal(b0, b1, b2, b3) ==
    LET bit == b0 % 2
        h == (b0 \div 2) + 128 * b1 + 32768 * b2 + 8388608 * b3
    IN  IF h < 5 THEN <<Digits[2 * h + bit + 1]>>
        ELSE ToDecimal(h \div 5) \o <<Digits[2 * (h % 5) + bit + 1]>>
RECURSIVE SIDTail(_, _)
\* A hyphen and the decimal value for each sub-authority from the i-th on.
SIDTail(raw, i) ==
    IF i > raw[2] THEN <<>>
    ELSE <<"-">>
         \o Unsigned32Decimal(raw[4 * i + 5], raw[4 * i + 6], raw[4 * i + 7],
                              raw[4 * i + 8])
         \o SIDTail(raw, i + 1)

\* C20: the decoded text of a binary SID with N sub-authorities is S, the
\* revision and the authority as the decoder prints them, followed by
\* exactly N times a hyphen and the unsigned 32-bit little-endian value of
\* the sub-authority's four bytes in decimal; no sub-authority carries a
\* minus sign.
C20_SubAuthoritiesUnsigned ==
    Decoded =>
        LET tail == SIDTail(BinarySID, 1)
            headLen == Len(DecodedSID) - Len(tail)
        IN  /\ headLen >= 0
            /\ SubSeq(DecodedSID, headLen + 1, Len(DecodedSID)) = tail
            /\ SubSeq(DecodedSID, 1, headLen)
                 = <<"S", "-">> \o ToDecimal(BinarySID[1]) \o <<"-">>
                   \o ToHex(SIDAuthority(BinarySID))
            /\ \A i \in 1..(Len(tail) - 1) :
                  ~(tail[i] = "-" /\ tail[i + 1] = "-")

\* The SID of authority 5 with the sub-authorities 0xFFFFFFFF and
\* 0x80000000 has been decoded.
C20_Witness ==
    /\ Decoded
    /\ BinarySID = <<1, 2, 0, 0, 0, 0, 0, 5,
                     255, 255, 255, 255, 0, 0, 0, 128>>
    /\ DecodedSID = <<"S", "-", "1", "-", "5",
                      "-", "4", "2", "9", "4", "9", "6", "7", "2", "9", "5",
                      "-", "2", "1", "4", "7", "4", "8", "3", "6", "4", "8">>

\* The binary objectGUID of the user and the text #search has decoded it to.
BinaryGUID == TheUser.rawGuid
DecodedGUID == call[1].user.objectGUID
\* The bytes in the order the text shows them, and the position in the text
\* of the first digit of the k-th of them (k from 0): behind the brace, two
\* digits a byte, and a hyphen behind the 4th, 6th, 8th and 10th byte.
GUIDTextOrder == <<3, 2, 1, 0, 5, 4, 7, 6, 8, 9, 10, 11, 12, 13, 14, 15>>
GUIDDigitAt(k) ==
    2 + 2 * k + Cardinality({h \in {4, 6, 8, 10} : k >= h})

\* C21: the decoded text of a 16-byte objectGUID has 38 characters: a brace,
\* 8-4-4-4-12 lowercase hex digits with hyphens between the groups, a
\* brace; its pairs of digits are the bytes 3 2 1 0, 5 4, 7 6, 8 9, 10 .. 15
\* of the input, each with both its digits.
C21_GUIDText ==
    (Decoded /\ Len(BinaryGUID) = 16) =>
        /\ Len(DecodedGUID) = 38
        /\ DecodedGUID[1] = "{" /\ DecodedGUID[38] = "}"
        /\ \A p \in {10, 15, 20, 25} : DecodedGUID[p] = "-"
        /\ \A k \in 0..15 :
              LET byte == BinaryGUID[GUIDTextOrder[k + 1] + 1]
              IN  /\ DecodedGUID[GUIDDigitAt(k)]
                       = HexDigits[(byte \div 16) + 1]
                  /\ DecodedGUID[GUIDDigitAt(k) + 1]
                       = HexDigits[(byte % 16) + 1]

\* GUIDBase with its fifth byte replaced by 10 and its last by 0 has been
\* decoded.
C21_Witness ==
    /\ Decoded
    /\ BinaryGUID = <<17, 34, 51, 68, 10, 102, 119, 136, 153, 170, 187, 204,
                      221, 238, 255, 0>>
    /\ DecodedGUID
         = <<"{", "4", "4", "3", "3", "2", "2", "1", "1", "-",
             "6", "6", "0", "a", "-", "8", "8", "7", "7", "-",
             "9", "9", "a", "a", "-",
             "b", "b", "c", "c", "d", "d", "e", "e", "f", "f", "0", "0", "}">>

\* C22: a search whose 'end' event carried a status other than 0 has failed
\* with the non-zero-status error that carries that status, and none of the
\* entries received has reached the caller: nothing was handed over, no
\* user was found and no result exists.
C22_NonZeroStatusFails ==
    LET rec == call[1]
    IN  (rec.endStatus # <<>> /\ rec.endStatus[1] # 0) =>
          /\ rec.pc = "failed"
          /\ rec.error = "NonZeroStatus"
          /\ rec.detail = rec.endStatus
          /\ ~rec.handed.given
          /\ rec.found = "" /\ rec.user = NoEntry /\ rec.result = NoValue

\* The stream has ended with status 4 after two entries were received.
C22_Witness ==
    /\ call[1].endStatus = <<4>>
    /\ call[1].sent = 2 /\ Len(call[1].items) = 2
    /\ call[1].error = "NonZeroStatus"

\* C23: the entries of a search reach the caller only with the 'end' event
\* of status 0 - while the stream is open nothing has been handed over -
\* and then they are all the entries received, in the order of arrival;
\* objectSid and objectGUID of each are undefined when the server's entry
\* has no such raw attribute and the decoded text otherwise (S-..., and the
\* 38 characters in braces).
C23_EntriesAfterEnd ==
    LET rec == call[1]
        stream == EntryStream(1)
    IN  /\ rec.pc = "userSearch" => ~rec.handed.given /\ rec.found = ""
        /\ rec.handed.given =>
              /\ rec.endStatus = <<0>>
              /\ Len(rec.handed.items) = rec.sent
              /\ \A i \in 1..rec.sent :
                    LET entry == rec.handed.items[i]
                    IN  /\ entry.dn = stream[i].dn
                        /\ IF stream[i].rawSid = <<>>
                           THEN entry.objectSid = NoText
                           ELSE /\ Len(entry.objectSid) >= 5
                                /\ entry.objectSid[1] = "S"
                        /\ IF stream[i].rawGuid = <<>>
                           THEN entry.objectGUID = NoText
                           ELSE /\ Len(entry.objectGUID) = 38
                                /\ entry.objectGUID[1] = "{"

\* Three entries have arrived and been handed over with the end of the
\* stream: the first with objectSid and without objectGUID, the second the
\* other way round.
C23_Witness ==
    /\ call[1].handed.given
    /\ Len(call[1].handed.items) = 3
    /\ call[1].handed.items[1].objectSid # NoText
    /\ call[1].handed.items[1].objectGUID = NoText
    /\ call[1].handed.items[2].objectSid = NoText
    /\ call[1].handed.items[2].objectGUID # NoText

\* C24: whenever a call with a password starts on an initialised instance
\* with the cache configured, it is served the entry held for its username
\* if that entry was stored at most 300 seconds before, and goes to compare
\* the password with it; if the entry is older, or none is held, the call
\* gets no entry and has issued its bind.
C24_ServedFor300Seconds ==
    [][\A c \in Calls :
         (/\ call[c].pc = "idle" /\ call'[c].pc # "idle"
          /\ initialised /\ options.cache /\ call'[c].password # "") =>
             LET key == call'[c].username
                 young == /\ \E i \in DOMAIN cache : cache[i].key = key
                          /\ \A i \in DOMAIN cache :
                                cache[i].key = key =>
                                  now * TickMs - cache[i].ctime
                                      <= CacheExpirySeconds * MsPerSecond
             IN  IF young
                 THEN /\ call'[c].pc = "compare"
                      /\ call'[c].cached.key = key
                      /\ call'[c].binds = call[c].binds
                 ELSE /\ call'[c].pc = "bind"
                      /\ call'[c].cached = NoCached
                      /\ call'[c].binds = call[c].binds + 1]_vars

\* A call has started while the entry of its username was older than 300
\* seconds: it was served nothing and awaits its bind.
C24_Witness ==
    \E c \in Calls :
        /\ call[c].pc = "bind" /\ call[c].cached = NoCached
        /\ call[c].held
        /\ \E i \in DOMAIN cache :
              /\ cache[i].key = call[c].username
              /\ now * TickMs - cache[i].ctime
                    > CacheExpirySeconds * MsPerSecond

\* The usernames the cache holds entries for.
CacheKeys(items) == {items[i].key : i \in DOMAIN items}

\* C25: the cache never holds more than 100 entries, and a step that puts
\* the entry of a username not held into a cache of 100 removes the entry
\* used least recently (the last of the LRU order) and no other.
C25_AtMost100 ==
    /\ [](Len(cache) <= CacheSize)
    /\ [][(Len(cache) = CacheSize
           /\ CacheKeys(cache') \ CacheKeys(cache) # {}) =>
             /\ Len(cache') = CacheSize
             /\ CacheKeys(cache) \ CacheKeys(cache')
                  = {cache[Len(cache)].key}
             /\ \A i \in 1..(CacheSize - 1) : cache'[i + 1] = cache[i]]_vars

\* The entry of the 101st user has been stored in the full cache.
C25_Witness ==
    /\ Len(cache) = CacheSize
    /\ cache[1].key = ManyName(CacheSize)
    /\ ManyName(0) \notin CacheKeys(cache) \/ ManyName(1) \notin CacheKeys(cache)

\* The step in which call c, having bound, found its user and the groups
\* with the cache configured, returns its result.
ReturnsFromDirectory(c) ==
    call[c].pc = "hash" /\ call'[c].pc = "done"
\* The cache holds, for the username of c and as its one entry for it, the
\* hash of the password of c and the result of c, stored now.
StoredFor(c) ==
    /\ Cardinality({i \in DOMAIN cache' :
                      cache'[i].key = call'[c].username}) = 1
    /\ \E i \in DOMAIN cache' :
          /\ cache'[i].key = call'[c].username
          /\ cache'[i].value = [password |-> Hash(call'[c].password),
                                user |-> call'[c].result]
          /\ cache'[i].ctime = now * TickMs

\* C26 as worded: every call that returns after going to the directory with
\* the cache configured leaves the cache with exactly one entry for its
\* username as submitted: the hash of its password and the result it
\* returns.
C26_AsWorded ==
    [][\A c \in Calls : ReturnsFromDirectory(c) => StoredFor(c)]_vars

\* C26: such a call leaves that entry whenever hashing the password has
\* succeeded; when hashing has failed it returns all the same and leaves
\* the cache as it was.
C26_StoredUnlessHashFails ==
    [][\A c \in Calls :
         ReturnsFromDirectory(c) =>
             /\ call'[c].result = call[c].result
             /\ IF call'[c].stored THEN StoredFor(c) ELSE cache' = cache]_vars

\* A call that found an entry of an earlier call for its username has
\* returned and stored its own, later one.
C26_Witness ==
    \E c \in Calls :
        /\ call[c].pc = "done" /\ call[c].stored /\ call[c].held
        /\ call[c].storedMs > 0
        /\ \E i \in DOMAIN cache :
              /\ cache[i].key = call[c].username
              /\ cache[i].ctime = call[c].storedMs
              /\ cache[i].value.user = call[c].result

\* C27: whenever a call issues a search, the latest bind on the connection
\* is that call's own successful bind.
C27_SearchUnderOwnBind ==
    [][\A c \in Calls :
         Len(call'[c].issued) > Len(call[c].issued) =>
             boundAs' = call'[c].username]_vars

\* What the caller gave for url and for domainDN.
Given(init, name) ==
    init # <<>> /\ (IF name = "url" THEN init[1].url ELSE init[1].domainDN) # <<>>

ConfigurationErrors ==
    {"Options not provided",
     "AD domain controller LDAP URL not defined (options.url)",
     "Domain DN not defined (options.domainDN)"}

\* C28: constructing without options, without url or without domainDN fails
\* with a configuration error and no instance, and no client is ever created
\* without an instance; with url and domainDN given (non-empty) the
\* constructor yields an instance whose domainDN is the one given.
C28_ConfigurationErrors ==
    /\ [](options = NoInstance => ~initialised /\ boundAs = NoText)
    /\ [][\A c \in Calls : \A init \in InitArguments :
            Construct(c, init) =>
                IF ~Given(init, "url") \/ ~Given(init, "domainDN")
                THEN /\ call'[c].pc = "failed"
                     /\ call'[c].error \in ConfigurationErrors
                     /\ options' = NoInstance
                     /\ ~initialised'
                ELSE (init[1].url[1] # "" /\ init[1].domainDN[1] # "") =>
                         /\ options' # NoInstance
                         /\ options'.domainDN = init[1].domainDN[1]
                         /\ call'[c].pc = "idle"]_vars

\* One constructor call failed for the missing domainDN; another, given url
\* and domainDN, produced an instance that ADAuth.create then initialised.
C28_Witness ==
    /\ call[1].pc = "failed"
    /\ call[1].error = "Domain DN not defined (options.domainDN)"
    /\ options # NoInstance
    /\ options.domainDN = OtherBase
    /\ initialised

\* The membership searches a call issued for the object with this dn.
MembershipSearches(c, dn) ==
    {k \in DOMAIN call[c].issued :
        call[c].issued[k].filter = Filter("member", dn, NoText)}

\* resolveGroups was invoked on the object with this dn and has finished.
Visited(c, dn) ==
    \E t \in DOMAIN call[c].tasks :
        call[c].tasks[t].obj.dn = dn /\ call[c].tasks[t].stage = "done"

\* C29: when resolveGroups has returned, every group in its result has had
\* its membership search issued exactly once and that search has completed.
C29_EveryGroupVisitedOnce ==
    \A c \in Calls :
        (Returned(c) /\ call[c].result.groupsAre = "list") =>
            \A i \in DOMAIN call[c].result.groups :
                /\ Cardinality(MembershipSearches(c,
                                   call[c].result.groups[i].dn)) = 1
                /\ Visited(c, call[c].result.groups[i].dn)

\* The groups one level discovered, in the order the level found them: the
\* list its dedup loop walked, first occurrences only.
RECURSIVE FirstOccurrences(_, _)
FirstOccurrences(groups, seen) ==
    IF groups = <<>> THEN <<>>
    ELSE IF Head(groups).dn \in seen THEN FirstOccurrences(Tail(groups), seen)
    ELSE <<Head(groups)>>
         \o FirstOccurrences(Tail(groups), seen \cup {Head(groups).dn})

\* The sibling groups the level of the user discovered.
Siblings(c) == FirstOccurrences(call[c].tasks[1].groups, {})

\* The result lists each group once, siblings in the order of discovery.
SiblingsOnceInOrder(c) ==
    /\ NoDuplicateDN(call[c].result.groups)
    /\ \A i, j \in DOMAIN call[c].result.groups :
           \A k, l \in DOMAIN Siblings(c) :
               (/\ call[c].result.groups[i].dn = Siblings(c)[k].dn
                /\ call[c].result.groups[j].dn = Siblings(c)[l].dn
                /\ k < l) => i < j

C31_SplitOnFirstBackslash ==
    \A c \in Calls :
        IsDownLevel(call[c].username) =>
            /\ call[c].error = "UnknownDomain" =>
                   call[c].detail = <<SuppliedDomain(call[c].username)>>
            /\ \A i \in UserSearches(c) :
                   call[c].issued[i].filter =
                       Filter("samAccountName", "",
                              escapeADString(AccountPart(call[c].username)))

\* A name without its last character when that is a backslash.
TrailingBackslashRemoved(name) ==
    IF name # <<>> /\ name[Len(name)] = "\\"
    THEN SubSeq(name, 1, Len(name) - 1)
    ELSE name

\* The two names are the same once both are upper-cased and each has lost
\* one trailing backslash.
NamesAgree(supplied, reported) ==
    TrailingBackslashRemoved(ToUpperCase(supplied))
        = TrailingBackslashRemoved(ToUpperCase(reported))

\* The domain search of call c delivers a domain entry that carries an
\* msDS-PrincipalName.
DomainDelivered(c) ==
    /\ call[c].pc = "domainSearch"
    /\ call'[c].pc \notin {"domainSearch", "hung"}
    /\ ~(call'[c].error \in {"SearchError", "NonZeroStatus"})
    /\ \E o \in TheDomains : o.principalName # NoText

\* C32: when the domain search delivers the directory's msDS-PrincipalName,
\* findUser goes on to the user search exactly when the supplied domain and
\* that name agree after upper-casing both and removing one trailing
\* backslash from each, and fails with the unknown-domain error otherwise.
C32_DomainAcceptedWhenNamesAgree ==
    [][\A c \in Calls :
         DomainDelivered(c) =>
            \A o \in TheDomains :
               IF NamesAgree(SuppliedDomain(call[c].username), o.principalName)
               THEN /\ call'[c].pc = "userSearch"
                    /\ Len(call'[c].issued) = 2
               ELSE /\ call'[c].error = "UnknownDomain"
                    /\ Len(call'[c].issued) = 1]_vars

\* d\a on a domain that reports D\ : the names differ in case and in the
\* trailing backslash, and the user search has been issued.
C32_Witness ==
    /\ call[1].username = <<"d", "\\", "a">>
    /\ \E o \in TheDomains : o.principalName = <<"D", "\\">>
    /\ call[1].pc = "userSearch"
    /\ Len(call[1].issued) = 2

C34_SideChannelChangesNothing ==
    [][\A c \in Calls : \A load \in CALoads :
       \A listener \in BOOLEAN : \A log \in BOOLEAN :
           InitialiseCall(c, load, listener, log) =>
               \A otherListener \in BOOLEAN : \A otherLog \in BOOLEAN :
                   InitialiseCall(c, load, otherListener, otherLog)]_vars

\* Call c ends its hashing step without an entry stored: bcrypt.hash or
\* the cache's set threw.
HashFails(c) ==
    /\ call[c].pc = "hash"
    /\ call'[c].pc # "hash"
    /\ ~call'[c].stored

\* C35: when hashing the password for the cache fails after bind, user
\* search and group resolution have succeeded, the call returns the user
\* and the groups it resolved, and the cache is left exactly as it was.
C35_HashFailureNotFatal ==
    [][\A c \in Calls :
         HashFails(c) =>
             /\ call'[c].pc = "done"
             /\ call'[c].error = ""
             /\ call'[c].result = call[c].result
             /\ call'[c].result.user.dn = TheUser.dn
             /\ call'[c].result.groups = call[c].objGroups
             /\ cache' = cache]_vars

\* A call has returned the user and a group although its hashing failed,
\* and the cache still holds just the entry another call stored.
C35_Witness ==
    \E c \in Calls :
        /\ options.cache /\ options.groupSearch
        /\ call[c].pc = "done" /\ call[c].bound
        /\ ~call[c].hit /\ ~call[c].stored
        /\ call[c].result.user.dn = UserDN
        /\ call[c].result.groups # <<>>
        /\ Len(cache) = 1
        /\ cache[1].key # call[c].username

\* The entries of the cache, whatever their order of use.
CacheEntries(items) == {items[i] : i \in DOMAIN items}

\* C36: the entries of the cache change only in the step in which a call
\* returns after storing its own; so a call that fails, at whatever step,
\* has added none, and the entry for its username is the one it found.
C36_FailedCallLeavesCache ==
    [][/\ CacheEntries(cache') # CacheEntries(cache) =>
              \E c \in Calls : /\ call[c].pc = "hash"
                                /\ call'[c].pc = "done"
                                /\ call'[c].stored
       /\ \A c \in Calls :
              (call[c].pc # "failed" /\ call'[c].pc = "failed") =>
                  /\ CacheEntries(cache') = CacheEntries(cache)
                  /\ CacheHas(cache, call[c].username) =>
                         /\ CacheHas(cache', call[c].username)
                         /\ CacheItem(cache', call[c].username)
                                = CacheItem(cache, call[c].username)]_vars

\* A call with a wrong password found the entry an earlier call stored for
\* its username, failed at the bind, and the entry is still the stored one.
C36_Witness ==
    \E c, d \in Calls :
        /\ call[c].pc = "failed" /\ call[c].held /\ call[c].binds = 1
        /\ call[c].password = "q"
        /\ call[d].pc = "done" /\ call[d].stored
        /\ call[d].username = call[c].username
        /\ CacheHas(cache, call[c].username)
        /\ CacheItem(cache, call[c].username).value
              = [password |-> Hash("p"), user |-> call[d].result]

\* What an operation refused for want of initialisation leaves behind: the
\* not-initialised error and no bind, search or unbind.
RefusedUninitialised(c) ==
    /\ call'[c].pc = "failed"
    /\ call'[c].error = "NotInitialised"
    /\ call'[c].binds = 0 /\ call'[c].unbinds = 0
    /\ call'[c].issued = <<>> /\ call'[c].searches = 0
    /\ UNCHANGED <<initialised, boundAs, disposePc, cache>>

\* C37: while the instance is not initialised, authenticate and close fail
\* with the not-initialised error without a bind, a search or an unbind,
\* and dispose returns without touching the client: a dispose after a
\* completed dispose unbinds and destroys nothing.
C37_UninitialisedRefuses ==
    [][\A c \in Calls :
         ~initialised =>
            /\ \A u \in Usernames : \A p \in Passwords :
                   AuthStart(c, u, p) => RefusedUninitialised(c)
            /\ CloseCall(c) => RefusedUninitialised(c)
            /\ DisposeCall(c) =>
                   /\ call'[c].pc = "done"
                   /\ call'[c].unbinds = 0
                   /\ UNCHANGED <<initialised, boundAs, disposePc, cache>>]_vars

\* One dispose has unbound and destroyed the client; a second dispose,
\* called after it, has returned without an unbind.
C37_Witness ==
    \E c, d \in Calls :
        /\ c # d
        /\ disposePc = "disposed" /\ ~initialised
        /\ call[d].pc = "done" /\ call[d].unbinds = 1
        /\ call[c].pc = "done" /\ call[c].unbinds = 0
        /\ call[c].username = NoText /\ call[c].binds = 0

\* The directory holds no domain entry, or one without msDS-PrincipalName.
NoPrincipalName == \A o \in TheDomains : o.principalName = NoText

\* C38: when the domain search of a down-level identifier succeeds and
\* delivers no domain entry, or one without msDS-PrincipalName, the call
\* has failed with an error after that one search: no user search is
\* issued and no user or groups are looked up.
C38_MissingDomainFails ==
    \A c \in Calls :
        (/\ IsDownLevel(call[c].username)
         /\ NoPrincipalName
         /\ PastDomainSearch(c)
         /\ call[c].pc # "hung"
         /\ ~SearchFailed(c)) =>
            /\ call[c].pc = "failed"
            /\ call[c].error \notin {"", "UnknownDomain"}
            /\ call[c].issued = <<DomainSearch>>
            /\ UserSearches(c) = {}
            /\ call[c].found = ""

\* D\a on a directory without a domain entry: the call has failed after
\* its domain search.
C38_Witness ==
    /\ TheDomains = {}
    /\ call[1].username = UserDownLevel
    /\ call[1].bound
    /\ call[1].pc = "failed"
    /\ call[1].error = "TypeError"
    /\ call[1].issued = <<DomainSearch>>
====
